---------------------------- MODULE Spec2Model ----------------------------
(***************************************************************************)
(* A model of the job-scoped crawl orchestration of the scraper:           *)
(*   job_manager.py      start_job / stop_job / get_job_progress           *)
(*   scrapy_scraper.py   progress register, ItemsCollectorPipeline         *)
(*   spiders/website_spider.py   WebsiteSpider (frontier policy, parse)    *)
(*   celery_tasks.py     scrape_websites_task                              *)
(*   database.py         jobs / scraped_items tables                       *)
(* Python dicts are functions whose DOMAIN is the set of keys.  The Scrapy *)
(* engine, the Twisted reactor and the fetched web are the environment.    *)
(***************************************************************************)
EXTENDS Integers, Sequences, FiniteSets, TLC

(***************************************************************************)
(* Bounds of the model.                                                    *)
(***************************************************************************)
MaxJobs == 1          \* jobs the lifecycle specifications start
MaxIds == 2           \* job ids are 1..MaxIds; SpecSerial starts them all
MaxSeeds == 2         \* seed domains are 1..MaxSeeds
SmallSite == 1        \* sub-pages of a site in the lifecycle specification
MaxInFlight == 2      \* fetches the engine keeps in flight at once
MaxEntries == 2       \* length of the list fields of a fragment (SpecMerge)
MaxEmails == 1        \* distinct addresses a fragment can carry (SpecMerge)
StarSite == 250       \* sub-pages of the large site of the caps scenario
MaxThreads == 2       \* threads that call the search cache (SpecCache)
MaxTime == 2          \* the clock runs from 0 to MaxTime hours (SpecCache)
MaxPuts == 2          \* save_search_cache calls in a behaviour (SpecCache)
MaxTtl == 2           \* ttl_hours is in 0..MaxTtl (SpecCache)
MaxClock == 2         \* a job's clock runs from 0 to MaxClock (SpecTimed)
MaxChain == 5         \* sub-pages of the chain of a deep site
HugeSite == 401       \* sub-pages of the site that passes the global cap

(***************************************************************************)
(* Program constants.                                                      *)
(***************************************************************************)
MAX_TOTAL_PAGES == 400
MAX_PAGES_PER_SITE == 200
MAX_DEPTH == 3
DEPTH_PRIORITY == 1
max_retries == 2
PROGRESS_EVERY == 10

JobIds == 1..MaxIds

\* The jobs the lifecycle specifications start.
Jobs == 1..MaxJobs
Domains == 1..MaxSeeds

(***************************************************************************)
(* Python dict helpers.                                                    *)
(***************************************************************************)
Put(d, k, v) == [x \in (DOMAIN d) \cup {k} |-> IF x = k THEN v ELSE d[x]]

Pop(d, k) == [x \in (DOMAIN d) \ {k} |-> d[x]]

EmptyDict == <<>>

SetDefault(d, k, v) == IF k \in DOMAIN d THEN d ELSE Put(d, k, v)

Range(s) == {s[i] : i \in DOMAIN s}

(***************************************************************************)
(* URLs are <<domain, kind, n>>: the page or the contact card number n of  *)
(* a domain; <<d, "page", 0>> is the site's root, the seed URL.            *)
(***************************************************************************)
Root(d) == <<d, "page", 0>>

PageUrl(d, i) == <<d, "page", i>>

VcfUrl(d, i) == <<d, "vcf", i>>

netloc(u) == u[1]

IsVcf(u) == u[2] = "vcf"

\* Python's order on the URL strings, as sorted() uses it.
UrlLess(u, v) ==
    \/ u[1] < v[1]
    \/ u[1] = v[1] /\ u[2] = "page" /\ v[2] = "vcf"
    \/ u[1] = v[1] /\ u[2] = v[2] /\ u[3] < v[3]

RECURSIVE Descending(_)
Descending(S) ==
    IF S = {} THEN <<>>
    ELSE LET m == CHOOSE x \in S : \A y \in S \ {x} : x > y
         IN <<m>> \o Descending(S \ {m})

RECURSIVE SortedInts(_)
\* sorted(list(S)) for a set of values (emails, phones): ascending order.
SortedInts(S) ==
    IF S = {} THEN <<>>
    ELSE LET m == CHOOSE x \in S : \A y \in S \ {x} : x < y
         IN <<m>> \o SortedInts(S \ {m})

RECURSIVE SortedUrls(_)
\* sorted(list(S)) for a set of URLs.
SortedUrls(S) ==
    IF S = {} THEN <<>>
    ELSE LET m == CHOOSE x \in S : \A y \in S \ {x} : UrlLess(x, y)
         IN <<m>> \o SortedUrls(S \ {m})

(***************************************************************************)
(* Per-Site Aggregator: ItemsCollectorPipeline.process_item.               *)
(* A fragment (WebsiteItem) carries lists; the five link/value lists are   *)
(* only ever read through set.update, so they are modelled by their sets.  *)
(* vcard_files entries are [url, content], lawyer_profiles entries are     *)
(* [profile_url, lawyer_email, vcard_content].                             *)
(***************************************************************************)
NewSiteData(website) ==
    [website |-> website, emails |-> {}, phones |-> {}, vcard_links |-> {},
     vcard_files |-> <<>>, pdf_links |-> {}, image_links |-> {},
     lawyer_profiles |-> <<>>]

AppendVcardsNoDedup(existing, new) == existing \o new

RECURSIVE AppendVcards(_, _)
\* lines 252-257: append each vCard file whose url is not in the list yet.
AppendVcards(existing, new) ==
    IF new = <<>> THEN existing
    ELSE LET v == Head(new)
             seen == {existing[i].url : i \in DOMAIN existing}
         IN AppendVcards(IF v.url \in seen THEN existing ELSE Append(existing, v),
                         Tail(new))

AppendProfilesNoDedup(existing, new) == existing \o new

RECURSIVE AppendProfiles(_, _)
\* lines 260-265: append each profile whose profile_url is not in the list yet.
AppendProfiles(existing, new) ==
    IF new = <<>> THEN existing
    ELSE LET p == Head(new)
             seen == {existing[i].profile_url : i \in DOMAIN existing}
         IN AppendProfiles(IF p.profile_url \in seen THEN existing
                           ELSE Append(existing, p),
                           Tail(new))

\* lines 243-265: merge one item into the site's aggregated data.
AggregateItem(data, item) ==
    [website |-> data.website,
     emails |-> data.emails \cup item.emails,
     phones |-> data.phones \cup item.phones,
     vcard_links |-> data.vcard_links \cup item.vcard_links,
     vcard_files |-> AppendVcards(data.vcard_files, item.vcard_files),
     pdf_links |-> data.pdf_links \cup item.pdf_links,
     image_links |-> data.image_links \cup item.image_links,
     lawyer_profiles |-> AppendProfiles(data.lawyer_profiles, item.lawyer_profiles)]

\* An insertion-ordered dict keyed by website is the sequence of its values.
IndexOf(od, website) ==
    LET hit == {i \in DOMAIN od : od[i].website = website}
    IN IF hit = {} THEN 0 ELSE CHOOSE i \in hit : TRUE

OAppend(od, v) == Append(od, v)

OPut(od, v) ==
    IF IndexOf(od, v.website) = 0 THEN Append(od, v)
    ELSE [od EXCEPT ![IndexOf(od, v.website)] = v]

\* lines 231-265: items_by_url after process_item(item).
ItemsAfter(items_by_url, item) ==
    LET m == IF IndexOf(items_by_url, item.website) = 0
             THEN Append(items_by_url, NewSiteData(item.website))
             ELSE items_by_url
        i == IndexOf(m, item.website)
    IN [m EXCEPT ![i] = AggregateItem(m[i], item)]

SnapshotWithoutEmails(data) ==
    [website |-> data.website, emails |-> {}, phones |-> data.phones,
     vcard_links |-> data.vcard_links, vcard_files |-> data.vcard_files,
     pdf_links |-> data.pdf_links, image_links |-> data.image_links,
     lawyer_profiles |-> data.lawyer_profiles]

\* lines 274-283: the live snapshot of a site's aggregated data.
\* (list(set) keeps the set's elements in no particular order: a set here.)
LiveSnapshot(data) ==
    [website |-> data.website, emails |-> data.emails, phones |-> data.phones,
     vcard_links |-> data.vcard_links, vcard_files |-> data.vcard_files,
     pdf_links |-> data.pdf_links, image_links |-> data.image_links,
     lawyer_profiles |-> data.lawyer_profiles]

\* lines 297-306: the final record of a site.
FinalItem(data) ==
    [website |-> data.website,
     emails |-> SortedInts(data.emails),
     phones |-> SortedInts(data.phones),
     vcard_links |-> SortedUrls(data.vcard_links),
     vcard_files |-> data.vcard_files,
     pdf_links |-> SortedUrls(data.pdf_links),
     image_links |-> SortedUrls(data.image_links),
     lawyer_profiles |-> data.lawyer_profiles]

(***************************************************************************)
(* State.                                                                  *)
(***************************************************************************)
VARIABLES
    db,             \* jobs table (database.Job): job id -> row
    db_items,       \* scraped_items table: job id -> (website -> row)
    progress,       \* scraping_progress_by_job: job id -> progress dict
    scraped_items,  \* scraped_items_by_job: job id -> list of final items
    live_results,   \* live_results_by_job: job id -> (website -> snapshot)
    job_cancelled,  \* _job_cancelled: job id -> bool
    job_crawlers,   \* _job_crawlers: the job ids holding a crawler handle
    ctl,            \* per job: seed list, dispatch mode, starter thread position
    reactor,        \* per job: calls queued on the reactor by callFromThread
    spider,         \* per job: the WebsiteSpider instance of its crawl
    pipeline,       \* per job: ItemsCollectorPipeline.items_by_url of its crawl
    engine,         \* per job: the Scrapy engine of its crawl
    task,           \* per job: the Celery task scrape_websites_task
    web,            \* the scenario: the web being crawled, the engine's settings
    hist,           \* history: what happened to each job (read by the properties only)
    cache           \* the search_cache table, the clock and the calls under way

vars == <<db, db_items, progress, scraped_items, live_results, job_cancelled,
          job_crawlers, ctl, reactor, spider, pipeline, engine, task, web, hist, cache>>

registerVars == <<progress, scraped_items, live_results, job_cancelled>>

(***************************************************************************)
(* Progress Register (scrapy_scraper.py).                                  *)
(***************************************************************************)
\* _default_progress_dict
DefaultProgress ==
    [status |-> "idle", total |-> 0, completed |-> 0, urls |-> <<>>,
     url_status |-> EmptyDict, message |-> ""]

\* The progress dict start_scrape_job / _start_job_inmemory install.
RunningProgress(urls) ==
    [status |-> "running", total |-> Len(urls), completed |-> 0, urls |-> urls,
     url_status |-> [u \in Range(urls) |-> "pending"],
     message |-> "Starting to scrape"]

\* _ensure_job_structures, one operator per container.
EnsureProgress(p, j) == SetDefault(p, j, DefaultProgress)

EnsureItems(s, j) == SetDefault(s, j, <<>>)

EnsureLive(l, j) == SetDefault(l, j, <<>>)

EnsureCancelled(c, j) == SetDefault(c, j, FALSE)

\* A test of the cancel flag that never finds it set.
NeverCancelled(j) == FALSE

\* is_job_cancelled
is_job_cancelled(j) == j \in DOMAIN job_cancelled /\ job_cancelled[j]

NoUrlStatus == <<>>

CountCompleted(url_status) ==
    Cardinality({u \in DOMAIN url_status : url_status[u] = "completed"})

\* update_progress on the progress dict: "" and <<>> stand for the arguments
\* left None (a falsy status or message is skipped alike).
UpdateProgressDict(prog, status, message, url_status) ==
    LET p1 == IF status # "" THEN [prog EXCEPT !.status = status] ELSE prog
        p2 == IF message # "" THEN [p1 EXCEPT !.message = message] ELSE p1
        us == IF url_status # NoUrlStatus
              THEN Put(p2.url_status, url_status[1], url_status[2])
              ELSE p2.url_status
        p3 == [p2 EXCEPT !.url_status = us]
    IN IF url_status # NoUrlStatus /\ url_status[2] = "completed"
       THEN [p3 EXCEPT !.completed = CountCompleted(us)]
       ELSE p3

\* update_progress(job_id=j, ...): scraping_progress_by_job afterwards.
update_progress(p, j, status, message, url_status) ==
    LET q == EnsureProgress(p, j)
    IN Put(q, j, UpdateProgressDict(q[j], status, message, url_status))

\* get_scraping_progress(j): the dict returned (a shallow copy).
get_scraping_progress(j) ==
    IF j \in DOMAIN progress THEN progress[j] ELSE DefaultProgress

(***************************************************************************)
(* Persistence (database.py).                                              *)
(***************************************************************************)
\* create_job
NewJobRow(urls) ==
    [status |-> "pending", total |-> Len(urls), completed |-> 0, urls |-> urls,
     url_status |-> [u \in Range(urls) |-> "pending"], message |-> "Job created"]

NoCount == -1

\* update_job: None arguments ("" / NoCount / an empty dict) leave the column.
update_job(d, j, status, completed, message, url_status) ==
    IF j \notin DOMAIN d THEN d
    ELSE LET r1 == IF status # "" THEN [d[j] EXCEPT !.status = status] ELSE d[j]
             r2 == IF completed # NoCount THEN [r1 EXCEPT !.completed = completed] ELSE r1
             r3 == IF message # "" THEN [r2 EXCEPT !.message = message] ELSE r2
             r4 == IF DOMAIN url_status # {} THEN [r3 EXCEPT !.url_status = url_status] ELSE r3
         IN Put(d, j, r4)

\* save_scraped_item: one row per (job, website), replaced on a second save.
\* The row keeps emails, phones and lawyer_profiles of the item.
ItemRow(item) ==
    [website |-> item.website, emails |-> item.emails, phones |-> item.phones,
     lawyer_profiles |-> item.lawyer_profiles]

save_scraped_item(t, j, item) ==
    Put(t, j, Put(IF j \in DOMAIN t THEN t[j] ELSE EmptyDict, item.website, ItemRow(item)))

(***************************************************************************)
(* The web being crawled (environment).  Site d has a root page and        *)
(* web.n sub-pages, all linked from the root; sub-page 1 is a profile page *)
(* ("/team/...") that links to a contact card and back to the root; the    *)
(* other sub-pages link back to the root only.  The root also links to a   *)
(* team page on a subdomain of the site and to the root of another domain. *)
(* On a deep site sub-page i also links to sub-page i + 1, as far as       *)
(* sub-page web.chain.                                                     *)
(***************************************************************************)
NoUrl == <<>>

\* The netloc of a subdomain of site d ("www." or "blog." before it), and of
\* a domain that is no seed's.
SubdomainOf(d) == 0 - d

Elsewhere == 0

OffsiteLinks(d) == <<PageUrl(SubdomainOf(d), 1), Root(Elsewhere)>>

\* response.css('a::attr(href)') resolved by urljoin, in document order.
Links(u) ==
    IF IsVcf(u) THEN <<>>
    ELSE IF u[3] = 0 THEN [i \in 1..web.n |-> PageUrl(u[1], i)] \o OffsiteLinks(u[1])
    ELSE (IF u[3] = 1 THEN <<VcfUrl(u[1], 1), Root(u[1])>> ELSE <<Root(u[1])>>)
         \o (IF u[3] < web.chain THEN <<PageUrl(u[1], u[3] + 1)>> ELSE <<>>)

\* A keyword of lines 520 / 530-532 occurs in the URL: sub-pages and cards.
HasKeyword(u) == IsVcf(u) \/ u[3] > 0

\* Strings are sequences of characters.  The mailboxes and the domains of
\* the addresses the sites publish: site d's are at DomainOf(d).
Mailboxes == <<<<"j", "a", "n", "e">>,
               <<"j", "o", "h", "n">>,
               <<"I", "n", "f", "o">>>>

DomainOf(d) ==
    IF d % 2 = 0 THEN <<"f", "i", "r", "m", "-", "a", ".", "e", "x", "a", "m", "p", "l", "e">>
    ELSE <<"a", "c", "m", "e", ".", "e", "x", "a", "m", "p", "l", "e">>

\* An address is named by a number: address 3 * d + k is mailbox k + 1 at
\* the domain of site d.
Address(e) == Mailboxes[(e % 3) + 1] \o <<"@">> \o DomainOf(e \div 3)

GENERIC_EMAIL_PATTERNS ==
    <<<<"i", "n", "f", "o", "@">>,
      <<"c", "o", "n", "t", "a", "c", "t", "@">>,
      <<"a", "d", "m", "i", "n", "@">>,
      <<"w", "e", "b", "m", "a", "s", "t", "e", "r", "@">>,
      <<"n", "o", "r", "e", "p", "l", "y", "@">>,
      <<"s", "u", "p", "p", "o", "r", "t", "@">>,
      <<"s", "a", "l", "e", "s", "@">>,
      <<"m", "a", "r", "k", "e", "t", "i", "n", "g", "@">>,
      <<"n", "e", "w", "s", "l", "e", "t", "t", "e", "r", "@">>,
      <<"h", "e", "l", "l", "o", "@">>,
      <<"g", "e", "n", "e", "r", "a", "l", "@">>,
      <<"o", "f", "f", "i", "c", "e", "@">>,
      <<"f", "i", "r", "m", "@">>,
      <<"l", "a", "w", "f", "i", "r", "m", "@">>,
      <<"l", "e", "g", "a", "l", "@">>>>

UpperCase == <<"A", "B", "C", "D", "E", "F", "G", "H", "I", "J", "K", "L", "M", "N", "O", "P", "Q", "R", "S", "T", "U", "V", "W", "X", "Y", "Z">>

LowerCase == <<"a", "b", "c", "d", "e", "f", "g", "h", "i", "j", "k", "l", "m", "n", "o", "p", "q", "r", "s", "t", "u", "v", "w", "x", "y", "z">>

\* str.lower()
lower(text) ==
    [i \in DOMAIN text |->
        IF \E k \in DOMAIN UpperCase : UpperCase[k] = text[i]
        THEN LowerCase[CHOOSE k \in DOMAIN UpperCase : UpperCase[k] = text[i]]
        ELSE text[i]]

\* pattern.replace('@', '')
replace(text, c) == SelectSeq(text, LAMBDA x : x # c)

\* sub in text
Contains(text, sub) ==
    \E i \in 0..(Len(text) - Len(sub)) : SubSeq(text, i + 1, i + Len(sub)) = sub

\* _is_generic_email
IsGenericEmail(email) ==
    \E k \in DOMAIN GENERIC_EMAIL_PATTERNS :
        Contains(lower(email), replace(GENERIC_EMAIL_PATTERNS[k], "@"))

\* email_pattern.findall(visible_text): the root shows a lawyer's address and
\* the firm's mailbox, the profile page the address of its lawyer.
RawEmailsOn(u) ==
    IF IsVcf(u) THEN {}
    ELSE IF u[3] = 0 THEN {3 * u[1], 3 * u[1] + 2}
    ELSE IF u[3] = 1 THEN {3 * u[1] + 1}
    ELSE {}

\* filtered_emails (line 431): the addresses of the page that pass the
\* generic-address filter.
EmailsOn(u) == {e \in RawEmailsOn(u) : ~IsGenericEmail(Address(e))}

\* _is_lawyer_profile_page
IsProfilePage(u) == ~IsVcf(u) /\ u[3] = 1

NoContent == 0

\* _extract_lawyer_profile: the first non-generic address of the page.
ProfileData(u) ==
    [profile_url |-> u,
     lawyer_email |-> IF EmailsOn(u) = {} THEN NoContent
                      ELSE CHOOSE e \in EmailsOn(u) : \A f \in EmailsOn(u) : e <= f,
     vcard_content |-> NoContent]

\* The card a contact-card URL serves (base64 of a body with BEGIN:VCARD).
VcardContent(u) == u[1]

(***************************************************************************)
(* WebsiteSpider.                                                          *)
(***************************************************************************)
NoSpider == [start_idx |-> 0, site_data |-> EmptyDict, processed_urls |-> {}]

\* site_data[base_url] as start_requests / parse create it.
NewSpiderData(base_url) ==
    [website |-> base_url, emails |-> {}, phones |-> {}, vcard_links |-> {},
     vcard_files |-> <<>>, pdf_links |-> {}, image_links |-> {},
     lawyer_profiles |-> <<>>, pages_seen |-> 0, cap_reached |-> FALSE]

\* The WebsiteItem parse / parse_vcard yield from site_data[base_url].
ItemOf(data) ==
    [website |-> data.website, emails |-> data.emails, phones |-> data.phones,
     vcard_links |-> data.vcard_links, vcard_files |-> data.vcard_files,
     pdf_links |-> data.pdf_links, image_links |-> data.image_links,
     lawyer_profiles |-> data.lawyer_profiles]

\* Request(url, callback=parse, errback=errback, meta={base_url, depth 0},
\*         dont_filter=True, priority=0)
SeedRequest(url) ==
    [url |-> url, base_url |-> url, depth |-> 0, priority |-> 0,
     callback |-> "parse", errback |-> TRUE, dont_filter |-> TRUE,
     profile_url |-> NoUrl]

\* Request(full_url, callback=parse_vcard, dont_filter=True, priority=depth+2)
VcardRequest(url, base_url, depth, profile_url) ==
    [url |-> url, base_url |-> base_url, depth |-> depth + 1,
     priority |-> depth + 2, callback |-> "parse_vcard", errback |-> FALSE,
     dont_filter |-> TRUE, profile_url |-> profile_url]

\* Request(full_url, callback=parse, meta depth+1, dont_filter=False,
\*         priority=depth+1)
PageRequest(url, base_url, depth) ==
    [url |-> url, base_url |-> base_url, depth |-> depth + 1,
     priority |-> depth + 1, callback |-> "parse", errback |-> FALSE,
     dont_filter |-> FALSE, profile_url |-> NoUrl]

\* lines 386-395: the cap test parse makes after counting the page.
CapReached(pages_seen, processed_urls) ==
    \/ pages_seen >= MAX_PAGES_PER_SITE
    \/ Cardinality(processed_urls) >= MAX_TOTAL_PAGES

\* A sequence with its positions: <<[i |-> 1, l |-> s[1]], ...>>.
Indexed(s) == [i \in DOMAIN s |-> [i |-> i, l |-> s[i]]]

\* The link at position i occurs at no earlier position.
FirstOccurrence(links, i) == \A k \in 1..(i - 1) : links[k] # links[i]

\* lines 469-486: [processed, requests] after the contact-card link loop: a
\* card link not processed yet is marked processed and requested, once.
VcardLoop(links, processed, base_url, depth, profile_url) ==
    LET taken == SelectSeq(Indexed(links),
                           LAMBDA x : /\ IsVcf(x.l)
                                      /\ x.l \notin processed
                                      /\ FirstOccurrence(links, x.i))
    IN [processed |-> processed \cup {taken[k].l : k \in DOMAIN taken},
        requests |-> [k \in DOMAIN taken |->
                         VcardRequest(taken[k].l, base_url, depth, profile_url)]]

\* The test of lines 528-532 without the comparison of the domains.
FollowAnyDomain(l, base_url, depth, processed) ==
    /\ l \notin processed
    /\ (depth = 0 \/ l[2] = "vcf" \/ l[3] > 0)

\* lines 528-532: the test a link passes to be followed.
FollowLink(l, base_url, depth, processed) ==
    /\ netloc(l) = netloc(base_url)
    /\ l \notin processed
    /\ (depth = 0 \/ HasKeyword(l))

\* lines 521-543: [processed, requests] after the link-following loop: a
\* link that passes the test is marked processed and requested, once.
FollowLoop(links, processed, base_url, depth) ==
    LET taken == SelectSeq(Indexed(links),
                           LAMBDA x : /\ FollowLink(x.l, base_url, depth, processed)
                                      /\ FirstOccurrence(links, x.i))
    IN [processed |-> processed \cup {taken[k].l : k \in DOMAIN taken},
        requests |-> [k \in DOMAIN taken |-> PageRequest(taken[k].l, base_url, depth)]]

\* The test of lines 515-520 without the depth limit.
FollowsLinksAtAnyDepth(data, cur, depth) ==
    /\ ~data.cap_reached
    /\ (depth = 0 \/ cur[2] = "vcf" \/ cur[3] > 0)

\* lines 515-520: whether parse follows the page's links at all.
FollowsLinks(data, cur, depth) ==
    /\ depth < MAX_DEPTH
    /\ ~data.cap_reached
    /\ (depth = 0 \/ HasKeyword(cur))

\* lines 332-334: a profile's vcard_content set by parse_vcard.  The profile
\* dicts are shared (by reference) between the spider's list, the pipeline's
\* list, the live snapshot and the final item, so each of them is rewritten.
SetVcardContent(profiles, profile_url, content) ==
    LET hit == {i \in DOMAIN profiles : profiles[i].profile_url = profile_url}
        first == IF hit = {} THEN 0 ELSE CHOOSE i \in hit : \A k \in hit : i <= k
    IN [i \in DOMAIN profiles |->
            IF i = first THEN [profiles[i] EXCEPT !.vcard_content = content]
            ELSE profiles[i]]

\* WebsiteSpider.parse on the response to request r (ok: status 200):
\* the spider afterwards, the requests and the item it yields, and the
\* progress updates it makes (tick: "Visited n pages", marks: "scraping").
parse(sp, r, ok) ==
    LET base == r.base_url
        cur == r.url
        sd0 == SetDefault(sp.site_data, base, NewSpiderData(base))
        seen == sd0[base].pages_seen + 1
        d1 == [sd0[base] EXCEPT !.pages_seen = seen,
                                !.cap_reached = @ \/ CapReached(seen, sp.processed_urls)]
        tick == seen % PROGRESS_EVERY = 0
        prof == ProfileData(cur)
        addprof == /\ IsProfilePage(cur)
                   /\ prof.lawyer_email # NoContent
                   /\ cur \notin {d1.lawyer_profiles[i].profile_url :
                                      i \in DOMAIN d1.lawyer_profiles}
        links == Links(cur)
        vl == VcardLoop(links, sp.processed_urls, base, r.depth,
                        IF IsProfilePage(cur) THEN cur ELSE NoUrl)
        fl == IF FollowsLinks(d1, cur, r.depth)
              THEN FollowLoop(links, vl.processed, base, r.depth)
              ELSE [processed |-> vl.processed, requests |-> <<>>]
        d2 == [d1 EXCEPT
                 !.emails = @ \cup EmailsOn(cur)
                              \cup (IF addprof THEN {prof.lawyer_email} ELSE {}),
                 !.lawyer_profiles = IF addprof THEN Append(@, prof) ELSE @,
                 !.vcard_links = @ \cup {l \in Range(links) : IsVcf(l)}]
    IN IF ~ok
       THEN [spider |-> [sp EXCEPT !.site_data = Put(sd0, base, d1)],
             requests |-> <<>>, items |-> <<>>, tick |-> tick, marks |-> FALSE]
       ELSE [spider |-> [sp EXCEPT !.site_data = Put(sd0, base, d2),
                                   !.processed_urls = fl.processed],
             requests |-> vl.requests \o fl.requests,
             items |-> <<ItemOf(d2)>>,
             tick |-> tick,
             marks |-> (r.depth = 0 /\ cur = base)]

\* WebsiteSpider.parse_vcard on the response to request r (ok: a body that
\* holds BEGIN:VCARD within the size limit).
parse_vcard(sp, r, ok) ==
    LET base == r.base_url
        known == base \in DOMAIN sp.site_data
        d0 == sp.site_data[base]
        fresh == r.url \notin {d0.vcard_files[i].url : i \in DOMAIN d0.vcard_files}
        d1 == [d0 EXCEPT
                 !.vcard_files =
                     IF fresh
                     THEN Append(@, [url |-> r.url, content |-> VcardContent(r.url)])
                     ELSE @,
                 !.lawyer_profiles =
                     IF r.profile_url # NoUrl
                     THEN SetVcardContent(@, r.profile_url, VcardContent(r.url))
                     ELSE @]
    IN IF ~ok \/ ~known
       THEN [spider |-> sp, requests |-> <<>>, items |-> <<>>,
             tick |-> FALSE, marks |-> FALSE]
       ELSE [spider |-> [sp EXCEPT !.site_data = Put(sp.site_data, base, d1)],
             requests |-> <<>>, items |-> <<ItemOf(d1)>>,
             tick |-> FALSE, marks |-> FALSE]

(***************************************************************************)
(* The Scrapy engine (environment), under the settings of                  *)
(* _build_scrapy_settings: FIFO queues, DEPTH_PRIORITY 1.                  *)
(***************************************************************************)
NoEngine ==
    [state |-> "none", queue |-> <<>>, inflight |-> {}, seen |-> {},
     dispatched |-> EmptyDict, queued |-> EmptyDict]

\* How often key k was counted in the dict d of counters.
Count(d, k) == IF k \in DOMAIN d THEN d[k] ELSE 0

\* The requests the scheduler accepts of those a callback yielded, in
\* order: all but the requests the dupefilter drops.
Accepted(eng, requests) ==
    LET kept == SelectSeq(Indexed(requests),
                    LAMBDA x :
                        \/ x.l.dont_filter
                        \/ /\ x.l.url \notin eng.seen
                           /\ \A n \in 1..(x.i - 1) :
                                 requests[n].dont_filter \/ requests[n].url # x.l.url)
    IN [k \in DOMAIN kept |-> kept[k].l]

\* The scheduler after the requests a callback yielded, in order:
\* DepthMiddleware lowers the priority by depth * DEPTH_PRIORITY, the
\* dupefilter drops a request whose URL it has seen (in an earlier request
\* that was not dont_filter) unless the request is dont_filter.
Enqueue(eng, requests) ==
    LET kept == Accepted(eng, requests)
        urls == {kept[k].url : k \in DOMAIN kept}
    IN [eng EXCEPT
          !.queue = @ \o [k \in DOMAIN kept |->
                             [kept[k] EXCEPT !.priority =
                                  @ - kept[k].depth * DEPTH_PRIORITY]],
          !.seen = @ \cup {requests[k].url :
                              k \in {n \in DOMAIN requests : ~requests[n].dont_filter}},
          !.queued = [u \in (DOMAIN @) \cup urls |->
                         Count(@, u)
                         + Cardinality({k \in DOMAIN kept : kept[k].url = u})]]

\* The index of the request the scheduler pops: the highest priority, the
\* oldest among equals.
NextIndex(queue) ==
    CHOOSE i \in DOMAIN queue :
        /\ \A k \in DOMAIN queue : queue[k].priority <= queue[i].priority
        /\ \A k \in 1..(i - 1) : queue[k].priority < queue[i].priority

RemoveAt(q, i) == SubSeq(q, 1, i - 1) \o SubSeq(q, i + 1, Len(q))

(***************************************************************************)
(* The search cache: database.py, table search_cache.  Strings are         *)
(* sequences of characters; sha256 is taken to be injective, so a cache    *)
(* key is the string that is hashed.  Time is counted in hours.            *)
(***************************************************************************)
Threads == 1..MaxThreads

\* The arguments (practice_area, location, country, page) of a call.
CacheArgs ==
    {[practice_area |-> <<"a">>, location |-> <<"b", "|", "c">>,
      country |-> <<>>, page |-> 1],
     [practice_area |-> <<"a", "|", "b">>, location |-> <<"c">>,
      country |-> <<>>, page |-> 1],
     [practice_area |-> <<"a">>, location |-> <<"c">>,
      country |-> <<>>, page |-> 1]}

\* The result lists and counts that are cached.
CacheValues ==
    {[results |-> <<"u1">>, total_results |-> 1],
     [results |-> <<"u2", "u1">>, total_results |-> 7]}

\* str(page), for a page below ten.
str(n) == <<<<"0", "1", "2", "3", "4", "5", "6", "7", "8", "9">>[n + 1]>>

\* make_cache_key: f"{practice_area}|{location}|{country}|{page}".
make_cache_key(a) ==
    a.practice_area \o <<"|">> \o a.location \o <<"|">> \o a.country
        \o <<"|">> \o str(a.page)

\* json.dumps of a list of strings: "[", the elements separated by ",", "]".
dumps(l) ==
    IF l = <<>> THEN <<"[", "]">>
    ELSE [i \in 1..(2 * Len(l) + 1) |->
             IF i = 1 THEN "["
             ELSE IF i = 2 * Len(l) + 1 THEN "]"
             ELSE IF i % 2 = 0 THEN l[i \div 2] ELSE ","]

\* SearchCache.results: json.loads of results_json.
loads(text) == [k \in 1..((Len(text) - 1) \div 2) |-> text[2 * k]]

\* expires_at = datetime.utcnow() + timedelta(hours=ttl_hours)
ExpiresAtNoTtl(now, ttl_hours) == now

ExpiresAt(now, ttl_hours) == now + ttl_hours

\* SearchCache.is_expired: datetime.utcnow() > self.expires_at
NeverExpired(row, now) == FALSE

is_expired(row, now) == now > row.expires_at

\* cache_key is a unique column: a row can be inserted into rows.
NoUniqueColumn(rows, row) == TRUE

UniqueOk(rows, row) == \A r \in rows : r.cache_key # row.cache_key

NoRet == [op |-> "none"]

IdleTx == [pc |-> "idle", ret |-> NoRet]

NoCache ==
    [rows |-> {}, now |-> 0, next_id |-> 1,
     tx |-> [t \in Threads |-> IdleTx], last |-> EmptyDict]

\* The rows of a key.
RowsOf(rows, key) == {r \in rows : r.cache_key = key}

(***************************************************************************)
(* Initial state: no job has been started.                                 *)
(***************************************************************************)
NoTask == [pc |-> "none", retries |-> 0, idx |-> 0, url_status |-> EmptyDict]

NoCtl == [urls |-> <<>>, mode |-> "none", bg |-> "none"]

\* What a poller of the job holds: no dict returned by get_scraping_progress
\* yet (else the values of the dict at the instant of the copy), and no
\* call of get_scraped_items under way (else the final items it read).
NoSnap == [held |-> FALSE, copy |-> DefaultProgress]

NoReader ==
    [pc |-> "idle", final |-> <<>>, merged |-> FALSE, returned |-> FALSE,
     result |-> <<>>]

\* Nothing has happened to the job yet: Cancel was not called while it was
\* running, no seed's fetch has failed, no time has passed since its start
\* and its crawl has not run past the ceiling, the start of its crawl has
\* not faulted, Cancel was not called between the starter's test of the
\* cancel flag and the storing of the crawler handle, the starter did not
\* find the cancel flag set.
NoHist ==
    [cancel_running |-> FALSE, failed |-> {}, clock |-> 0, overran |-> FALSE,
     faulted |-> FALSE, snap |-> NoSnap, reader |-> NoReader,
     cancel_in_gap |-> FALSE, precancelled |-> FALSE]

Seeds(n) == [i \in 1..n |-> Root(i)]

\* The seed lists a caller passes: none, one or several distinct URLs.
UrlLists == {Seeds(n) : n \in 0..MaxSeeds}

InitState ==
    /\ db = EmptyDict
    /\ db_items = EmptyDict
    /\ progress = EmptyDict
    /\ scraped_items = EmptyDict
    /\ live_results = EmptyDict
    /\ job_cancelled = EmptyDict
    /\ job_crawlers = {}
    /\ ctl = [j \in JobIds |-> NoCtl]
    /\ reactor = [j \in JobIds |-> {}]
    /\ spider = [j \in JobIds |-> NoSpider]
    /\ pipeline = [j \in JobIds |-> <<>>]
    /\ engine = [j \in JobIds |-> NoEngine]
    /\ task = [j \in JobIds |-> NoTask]
    /\ hist = [j \in JobIds |-> NoHist]
    /\ cache = NoCache

Init ==
    /\ InitState
    /\ web = [n |-> SmallSite, conc |-> MaxInFlight, chain |-> 0]

\* uuid4: a job id no earlier call was given.
Fresh(j) == ctl[j].mode = "none" /\ \A k \in 1..(j - 1) : ctl[k].mode # "none"

\* The job was started: start_job or start_scrape_job returned its id.
Started(j) == ctl[j].mode \in {"inmemory", "celery", "legacy"}

\* The four containers after _ensure_job_structures(j), as a record.
Ensured(j) ==
    [progress |-> EnsureProgress(progress, j),
     scraped_items |-> EnsureItems(scraped_items, j),
     live_results |-> EnsureLive(live_results, j),
     job_cancelled |-> EnsureCancelled(job_cancelled, j)]

(***************************************************************************)
(* job_manager.start_job and scrapy_scraper.start_scrape_job.              *)
(***************************************************************************)
\* _start_job_inmemory up to thread.start() / start_scrape_job past the
\* empty test: the containers are reset and the progress dict installed.
InstallJob(j, urls) ==
    /\ progress' = Put(progress, j, RunningProgress(urls))
    /\ scraped_items' = Put(scraped_items, j, <<>>)
    /\ live_results' = EnsureLive(live_results, j)
    /\ job_cancelled' = Put(job_cancelled, j, FALSE)

\* start_job(urls): create_job, then dispatch to Celery (celery) or start
\* in memory.  It makes no test of urls.
start_job(j, urls, celery) ==
    /\ Fresh(j)
    /\ IF celery
       THEN /\ db' = Put(db, j, NewJobRow(urls))
            /\ task' = [task EXCEPT ![j] = [NoTask EXCEPT !.pc = "queued"]]
            /\ ctl' = [ctl EXCEPT ![j] = [urls |-> urls, mode |-> "celery", bg |-> "none"]]
            /\ UNCHANGED registerVars
       ELSE /\ db' = update_job(Put(db, j, NewJobRow(urls)), j, "running", NoCount,
                                "Starting scrape...", EmptyDict)
            /\ InstallJob(j, urls)
            /\ ctl' = [ctl EXCEPT ![j] = [urls |-> urls, mode |-> "inmemory", bg |-> "ready"]]
            /\ UNCHANGED task
    /\ UNCHANGED <<db_items, job_crawlers, reactor, spider, pipeline, engine, web, hist, cache>>

\* start_job(urls) while the database is unavailable: create_job rolls back
\* and raises again (database.py lines 227-229), start_job has no handler
\* (line 57), so the exception reaches the caller: no job id is returned,
\* nothing is installed in memory and no crawl is started.
start_job_unavailable(j, urls) ==
    /\ Fresh(j)
    /\ ctl' = [ctl EXCEPT ![j] = [urls |-> urls, mode |-> "outage", bg |-> "raised"]]
    /\ UNCHANGED <<db, db_items, registerVars, job_crawlers, reactor, spider, pipeline,
                   engine, task, web, hist, cache>>

\* start_scrape_job(urls): an empty list yields a job id whose progress is
\* "error"; otherwise the starter thread is launched.
start_scrape_job(j, urls) ==
    /\ Fresh(j)
    /\ IF urls = <<>>
       THEN /\ progress' = update_progress(progress, j, "error", "No URLs provided.",
                                           NoUrlStatus)
            /\ scraped_items' = Put(scraped_items, j, <<>>)
            /\ live_results' = EnsureLive(live_results, j)
            /\ job_cancelled' = Put(job_cancelled, j, FALSE)
            /\ ctl' = [ctl EXCEPT ![j] = [urls |-> urls, mode |-> "legacy", bg |-> "none"]]
       ELSE /\ InstallJob(j, urls)
            /\ ctl' = [ctl EXCEPT ![j] = [urls |-> urls, mode |-> "legacy", bg |-> "ready"]]
    /\ UNCHANGED <<db, db_items, job_crawlers, reactor, spider, pipeline, engine,
                   task, web, hist, cache>>

\* api_start_scrape (app.py): the route rejects an empty list with a 400
\* before start_job is called.
api_start_scrape(j, urls, celery) ==
    /\ urls # <<>>
    /\ start_job(j, urls, celery)

\* _background_start: under _crawl_serial_lock, give up if the job is
\* cancelled, else queue _start_in_reactor on the reactor.
background_start(j) ==
    /\ ctl[j].bg = "ready"
    /\ ctl' = [ctl EXCEPT ![j].bg = "done"]
    /\ IF is_job_cancelled(j)
       THEN /\ progress' = update_progress(progress, j, "cancelled",
                                           "Cancelled before start.", NoUrlStatus)
            /\ db' = IF ctl[j].mode = "inmemory"
                     THEN update_job(db, j, "cancelled", NoCount,
                                     "Cancelled before start.", EmptyDict)
                     ELSE db
            /\ UNCHANGED reactor
       ELSE /\ progress' = update_progress(progress, j, "", "Initializing scraper...",
                                           NoUrlStatus)
            /\ reactor' = [reactor EXCEPT ![j] = @ \cup {"start"}]
            /\ UNCHANGED db
    /\ scraped_items' = Ensured(j).scraped_items
    /\ live_results' = Ensured(j).live_results
    /\ job_cancelled' = Ensured(j).job_cancelled
    /\ hist' = [hist EXCEPT ![j].precancelled =
                                j \in DOMAIN job_cancelled /\ job_cancelled[j]]
    /\ UNCHANGED <<db_items, job_crawlers, spider, pipeline, engine, task, web, cache>>

(***************************************************************************)
(* The crawl, on the reactor thread.                                       *)
(***************************************************************************)
OnErrorReportsCompleted(j) ==
    /\ progress' = update_progress(progress, j, "completed", "Completed! Found",
                                   NoUrlStatus)
    /\ db' = IF ctl[j].mode = "inmemory"
             THEN update_job(db, j, "completed", NoCount, "Completed! Found", EmptyDict)
             ELSE db
    /\ scraped_items' = Ensured(j).scraped_items
    /\ live_results' = Ensured(j).live_results
    /\ job_cancelled' = Ensured(j).job_cancelled
    /\ job_crawlers' = job_crawlers \ {j}

\* on_error(failure) of job_manager (in-memory mode) and of start_scrape_job.
on_error(j) ==
    /\ progress' = update_progress(progress, j,
                                   IF is_job_cancelled(j) THEN "cancelled" ELSE "error",
                                   IF is_job_cancelled(j) THEN "Cancelled."
                                   ELSE "Error during scraping", NoUrlStatus)
    /\ db' = IF ctl[j].mode = "inmemory"
             THEN update_job(db, j, IF is_job_cancelled(j) THEN "cancelled" ELSE "error",
                             NoCount,
                             IF is_job_cancelled(j) THEN "Cancelled."
                             ELSE "Error during scraping", EmptyDict)
             ELSE db
    /\ scraped_items' = Ensured(j).scraped_items
    /\ live_results' = Ensured(j).live_results
    /\ job_cancelled' = Ensured(j).job_cancelled
    /\ job_crawlers' = job_crawlers \ {j}

\* _start_in_reactor: create the crawler, keep its handle, start the crawl.
\* outcome "raise": create_crawler / runner.crawl raises; "fail": the crawl's
\* deferred fails, so on_error runs as soon as it is attached; "ok": the
\* engine opens the spider.
start_in_reactor(j, outcome) ==
    /\ "start" \in reactor[j]
    /\ reactor' = [reactor EXCEPT ![j] = @ \ {"start"}]
    /\ CASE outcome = "raise" ->
              /\ progress' = update_progress(progress, j, "error", "Error: crawl",
                                             NoUrlStatus)
              /\ db' = IF ctl[j].mode = "inmemory"
                       THEN update_job(db, j, "error", NoCount, "Error: crawl", EmptyDict)
                       ELSE db
              /\ scraped_items' = Ensured(j).scraped_items
              /\ live_results' = Ensured(j).live_results
              /\ job_cancelled' = Ensured(j).job_cancelled
              /\ UNCHANGED <<job_crawlers, spider, pipeline, engine>>
         [] outcome = "fail" ->
              /\ on_error(j)
              /\ engine' = [engine EXCEPT ![j] = [NoEngine EXCEPT !.state = "done"]]
              /\ UNCHANGED <<spider, pipeline>>
         [] outcome = "ok" ->
              /\ job_crawlers' = job_crawlers \cup {j}
              /\ spider' = [spider EXCEPT ![j] = NoSpider]
              /\ pipeline' = [pipeline EXCEPT ![j] = <<>>]
              /\ engine' = [engine EXCEPT ![j] = [NoEngine EXCEPT !.state = "running"]]
              /\ UNCHANGED <<db, registerVars>>
    /\ hist' = IF outcome \in {"raise", "fail"} /\ ~is_job_cancelled(j)
               THEN [hist EXCEPT ![j].faulted = TRUE]
               ELSE hist
    /\ UNCHANGED <<db_items, ctl, task, web, cache>>

\* The engine has room for one more fetch.
HasRoom(j) == Cardinality(engine[j].inflight) < web.conc

\* WebsiteSpider.start_requests, one seed per pull of the engine (which
\* pulls a start request only when its scheduler is empty and it has room):
\* site_data[url] is installed, the URL marked "scraping", the seed queued.
\* The cancel test of lines 122-128 raises CloseSpider inside
\* "try: ... except Exception: pass", so the generator goes on.
start_requests(j) ==
    /\ engine[j].state = "running"
    /\ spider[j].start_idx < Len(ctl[j].urls)
    /\ engine[j].queue = <<>>
    /\ HasRoom(j)
    /\ LET url == ctl[j].urls[spider[j].start_idx + 1]
       IN /\ spider' = [spider EXCEPT
                          ![j].start_idx = @ + 1,
                          ![j].site_data = Put(@, url, NewSpiderData(url))]
          /\ progress' = update_progress(progress, j, "", "Scraping",
                                         <<url, "scraping">>)
          /\ scraped_items' = Ensured(j).scraped_items
          /\ live_results' = Ensured(j).live_results
          /\ job_cancelled' = Ensured(j).job_cancelled
          /\ engine' = [engine EXCEPT ![j] = Enqueue(@, <<SeedRequest(url)>>)]
    /\ UNCHANGED <<db, db_items, job_crawlers, ctl, reactor, pipeline, task, web, hist, cache>>

\* The engine sends the scheduler's next request to the downloader.
dispatch(j) ==
    /\ engine[j].state = "running"
    /\ engine[j].queue # <<>>
    /\ HasRoom(j)
    /\ LET i == NextIndex(engine[j].queue)
           r == engine[j].queue[i]
       IN engine' = [engine EXCEPT
                       ![j].queue = RemoveAt(@, i),
                       ![j].inflight = @ \cup {r},
                       ![j].dispatched = Put(@, r.base_url, Count(@, r.base_url) + 1)]
    /\ UNCHANGED <<db, db_items, registerVars, job_crawlers, ctl, reactor, spider,
                   pipeline, task, web, hist, cache>>

\* The profile dicts in items_by_url are the objects the spider holds in
\* site_data and hands over in every item (lines 264 and 562 copy no dict):
\* what parse_vcard wrote into a profile since it was appended is in
\* items_by_url as well.
SharedProfiles(items_by_url, item) ==
    [i \in DOMAIN items_by_url |->
        IF items_by_url[i].website # item.website THEN items_by_url[i]
        ELSE [items_by_url[i] EXCEPT !.lawyer_profiles =
                 [k \in DOMAIN @ |->
                     LET same == {n \in DOMAIN item.lawyer_profiles :
                                     item.lawyer_profiles[n].profile_url = @[k].profile_url}
                     IN IF same = {} THEN @[k]
                        ELSE item.lawyer_profiles[CHOOSE n \in same : TRUE]]]]

\* ItemsCollectorPipeline.process_item on the items a callback yielded
\* (none or one): the aggregate and the live snapshot of the site.
process_item(j, items) ==
    IF items = <<>>
    THEN /\ UNCHANGED pipeline
         /\ live_results' = Ensured(j).live_results
    ELSE LET after == ItemsAfter(SharedProfiles(pipeline[j], items[1]), items[1])
             data == after[IndexOf(after, items[1].website)]
             live == Ensured(j).live_results
         IN /\ pipeline' = [pipeline EXCEPT ![j] = after]
            /\ live_results' = Put(live, j, OPut(live[j], LiveSnapshot(data)))

\* WebsiteSpider.errback: the seed's URL is marked "error".
errback(j, r) ==
    /\ progress' = update_progress(progress, j, "", "Error scraping",
                                   <<r.base_url, "error">>)
    /\ scraped_items' = Ensured(j).scraped_items
    /\ live_results' = Ensured(j).live_results
    /\ job_cancelled' = Ensured(j).job_cancelled
    /\ UNCHANGED <<spider, pipeline>>
    /\ engine' = [engine EXCEPT ![j].inflight = @ \ {r}]

\* A callback (parse or parse_vcard) runs on a response and its output goes
\* to the scheduler and the pipeline.  parse's cancel test (lines 360-366)
\* raises CloseSpider inside "try: ... except Exception: pass", so parse
\* goes on whatever the flag says.
callback(j, r, ok) ==
    LET out == IF r.callback = "parse" THEN parse(spider[j], r, ok)
               ELSE parse_vcard(spider[j], r, ok)
        p1 == IF out.tick THEN update_progress(progress, j, "", "Visited pages", NoUrlStatus)
              ELSE progress
        p2 == IF out.marks
              THEN update_progress(p1, j, "", "Scraping", <<r.base_url, "scraping">>)
              ELSE p1
    IN /\ spider' = [spider EXCEPT ![j] = out.spider]
       /\ engine' = [engine EXCEPT
                       ![j] = Enqueue([@ EXCEPT !.inflight = @ \ {r}], out.requests)]
       /\ progress' = IF out.items # <<>> THEN EnsureProgress(p2, j) ELSE p2
       /\ scraped_items' = IF out.items # <<>> \/ out.tick \/ out.marks
                           THEN Ensured(j).scraped_items ELSE scraped_items
       /\ job_cancelled' = IF out.items # <<>> \/ out.tick \/ out.marks
                           THEN Ensured(j).job_cancelled ELSE job_cancelled
       /\ IF out.items # <<>> \/ out.tick \/ out.marks
          THEN process_item(j, out.items)
          ELSE UNCHANGED <<pipeline, live_results>>

\* A fetch in flight ends: "ok" (200), "http404" (a status the callbacks
\* are handed) or "fail" (network error or HTTP 500 after the retries).
\* Fetches in flight when the engine is told to stop still end this way.
respond(j, r, outcome) ==
    /\ engine[j].state \in {"running", "closing"}
    /\ r \in engine[j].inflight
    /\ IF outcome = "fail"
       THEN IF r.errback THEN errback(j, r)
            ELSE /\ engine' = [engine EXCEPT ![j].inflight = @ \ {r}]
                 /\ UNCHANGED <<registerVars, spider, pipeline>>
       ELSE callback(j, r, outcome = "ok")
    /\ UNCHANGED <<db, db_items, job_crawlers, ctl, reactor, task, web, cache>>
    /\ hist' = IF outcome = "fail" /\ r.errback
               THEN [hist EXCEPT ![j].failed = @ \cup {r.base_url}]
               ELSE hist

\* lines 316-326 of close_spider: every seed URL is marked "completed", the
\* count set to the number of seeds, and the status set to "completed"
\* unless it is "cancelled".
ClosedProgress(prog) ==
    LET us == [u \in (DOMAIN prog.url_status) \cup Range(prog.urls) |->
                   IF u \in Range(prog.urls) THEN "completed" ELSE prog.url_status[u]]
        p1 == [prog EXCEPT !.url_status = us, !.completed = Len(prog.urls)]
    IN IF prog.status # "cancelled"
       THEN [p1 EXCEPT !.status = "completed", !.message = "Scraping completed!"]
       ELSE p1

\* The spider is idle (nothing queued, nothing in flight, no start request
\* left), or the engine was told to stop and its fetches in flight ended.
SpiderDoneOnlyWhenStopped(j) ==
    /\ engine[j].state = "closing"
    /\ engine[j].inflight = {}

SpiderDone(j) ==
    \/ /\ engine[j].state = "running"
       /\ engine[j].queue = <<>>
       /\ engine[j].inflight = {}
       /\ spider[j].start_idx = Len(ctl[j].urls)
    \/ /\ engine[j].state = "closing"
       /\ engine[j].inflight = {}

\* ItemsCollectorPipeline.close_spider: the final items are appended, the
\* live snapshots dropped, the progress closed.
close_spider(j) ==
    /\ SpiderDone(j)
    /\ engine' = [engine EXCEPT ![j].state = "closed"]
    /\ scraped_items' =
           LET s == Ensured(j).scraped_items
           IN Put(s, j, s[j] \o [i \in DOMAIN pipeline[j] |-> FinalItem(pipeline[j][i])])
    /\ live_results' = Pop(live_results, j)
    /\ progress' = LET q == Ensured(j).progress IN Put(q, j, ClosedProgress(q[j]))
    /\ job_cancelled' = Ensured(j).job_cancelled
    /\ UNCHANGED <<db, db_items, job_crawlers, ctl, reactor, spider, pipeline, task, web, hist, cache>>

\* The live snapshots of the job, whether it has final items or not.
LiveOnly(j) == IF j \in DOMAIN live_results THEN live_results[j] ELSE <<>>

\* get_scraped_items(j): the final items if there are any, else the live
\* snapshots.
get_scraped_items(j) ==
    IF j \in DOMAIN scraped_items /\ scraped_items[j] # <<>> THEN scraped_items[j]
    ELSE IF j \in DOMAIN live_results THEN live_results[j]
    ELSE <<>>

RECURSIVE SaveAll(_, _, _)
SaveAll(t, j, items) ==
    IF items = <<>> THEN t ELSE SaveAll(save_scraped_item(t, j, Head(items)), j, Tail(items))

\* The status on_complete writes.
CompletedStatus(j) == "completed"

\* on_complete(_result): the crawl's deferred fires after the spider closed.
on_complete(j) ==
    /\ engine[j].state = "closed"
    /\ engine' = [engine EXCEPT ![j].state = "done"]
    /\ progress' = update_progress(progress, j, CompletedStatus(j),
                                   IF ctl[j].mode = "inmemory" THEN "Completed! Found"
                                   ELSE "Scraping completed!", NoUrlStatus)
    /\ scraped_items' = Ensured(j).scraped_items
    /\ live_results' = Ensured(j).live_results
    /\ job_cancelled' = Ensured(j).job_cancelled
    /\ IF ctl[j].mode = "inmemory"
       THEN /\ db' = update_job(db, j, CompletedStatus(j), NoCount, "Completed! Found",
                                EmptyDict)
            /\ db_items' = SaveAll(db_items, j, get_scraped_items(j))
       ELSE UNCHANGED <<db, db_items>>
    /\ job_crawlers' = job_crawlers \ {j}
    /\ UNCHANGED <<ctl, reactor, spider, pipeline, task, web, hist, cache>>

(***************************************************************************)
(* Reads.                                                                  *)
(***************************************************************************)
\* get_job_progress(j): the job row if there is one, else the register.
get_job_progress(j) == IF j \in DOMAIN db THEN db[j] ELSE get_scraping_progress(j)

RECURSIVE RowsOfSites(_, _)
\* The rows of the sites, in some order.
RowsOfSites(rows, sites) ==
    IF sites = {} THEN <<>>
    ELSE LET w == CHOOSE x \in sites : TRUE
         IN <<rows[w]>> \o RowsOfSites(rows, sites \ {w})

RECURSIVE RowsInOrder(_, _)
\* The rows of the sites of urls, in the order of urls (the order
\* on_complete saved them in).
RowsInOrder(rows, urls) ==
    IF urls = <<>> THEN <<>>
    ELSE (IF Head(urls) \in DOMAIN rows /\ Head(urls) \notin Range(Tail(urls))
          THEN <<rows[Head(urls)]>> ELSE <<>>)
         \o RowsInOrder(rows, Tail(urls))

\* get_job_items(j): item.to_dict() of every row of the job.
get_job_items(j) ==
    IF j \in DOMAIN db_items
    THEN RowsInOrder(db_items[j], ctl[j].urls)
             \o RowsOfSites(db_items[j], (DOMAIN db_items[j]) \ Range(ctl[j].urls))
    ELSE <<>>

\* get_job_results(j): the rows of the job if there are any, else
\* get_scraped_items(j).
get_job_results(j) ==
    IF get_job_items(j) # <<>> THEN get_job_items(j) ELSE get_scraped_items(j)

(***************************************************************************)
(* Cancel: job_manager.stop_job, which calls scrapy_scraper.stop_scrape_job.*)
(***************************************************************************)
stop_job(j) ==
    /\ db' = update_job(db, j, "cancelled", NoCount, "Job cancelled by user", EmptyDict)
    /\ job_cancelled' = Put(job_cancelled, j, TRUE)
    /\ progress' = update_progress(progress, j, "cancelled", "Stopping... (best effort)",
                                   NoUrlStatus)
    /\ scraped_items' = Ensured(j).scraped_items
    /\ live_results' = Ensured(j).live_results
    /\ reactor' = IF j \in job_crawlers THEN [reactor EXCEPT ![j] = @ \cup {"stop"}]
                  ELSE reactor
    /\ UNCHANGED <<db_items, job_crawlers, ctl, spider, pipeline, engine, task, web, cache>>
    /\ hist' = [hist EXCEPT ![j].cancel_running =
                                @ \/ get_job_progress(j).status = "running",
                            ![j].cancel_in_gap = @ \/ "start" \in reactor[j]]

\* _stop_in_reactor: crawler.stop() makes a running engine stop scheduling
\* and close once its fetches in flight have ended.
stop_in_reactor(j) ==
    /\ "stop" \in reactor[j]
    /\ reactor' = [reactor EXCEPT ![j] = @ \ {"stop"}]
    /\ engine' = IF engine[j].state = "running"
                 THEN [engine EXCEPT ![j].state = "closing"] ELSE engine
    /\ UNCHANGED <<db, db_items, registerVars, job_crawlers, ctl, spider, pipeline,
                   task, web, hist, cache>>

(***************************************************************************)
(* celery_tasks.scrape_websites_task, in the worker process.  The spider   *)
(* is given start_urls=[url], which WebsiteSpider.__init__ (urls=None)     *)
(* replaces by [], so start_requests returns at once and no page is        *)
(* fetched; item_callback is never called.                                 *)
(***************************************************************************)
\* line 37 and lines 50-51: the task starts (again, on a retry).
task_begin(j) ==
    /\ task[j].pc = "queued"
    /\ db' = update_job(db, j, "running", NoCount, "Starting scrape...", EmptyDict)
    /\ task' = [task EXCEPT ![j].pc = "running", ![j].idx = 0,
                            ![j].url_status = [u \in Range(ctl[j].urls) |-> "pending"]]
    /\ UNCHANGED <<db_items, registerVars, job_crawlers, ctl, reactor, spider,
                   pipeline, engine, web, hist, cache>>

\* crawl_all, one URL per step, on the crawl thread: the URL is marked
\* "scraping" and its crawl run; raises: runner.crawl raised.  The thread
\* goes on after the task's join timed out.
task_crawl_url(j, raises) ==
    /\ task[j].pc \in {"running", "done"}
    /\ task[j].idx < Len(ctl[j].urls)
    /\ LET url == ctl[j].urls[task[j].idx + 1]
           us == Put(task[j].url_status, url, "scraping")
       IN /\ db' = update_job(db, j, "", NoCount, "Scraping", us)
          /\ task' = [task EXCEPT ![j].idx = @ + 1,
                                  ![j].url_status = IF raises THEN Put(us, url, "error")
                                                    ELSE us]
    /\ UNCHANGED <<db_items, registerVars, job_crawlers, ctl, reactor, spider,
                   pipeline, engine, web, hist, cache>>

\* lines 99-108: thread.join(timeout=3600) returns (the crawl thread ended,
\* or timeout: it did not) and the final status is written.
task_finish(j, timeout) ==
    /\ task[j].pc = "running"
    /\ timeout \/ task[j].idx = Len(ctl[j].urls)
    /\ db' = update_job(db, j, "completed", Len(ctl[j].urls), "Completed! Scraped",
                        task[j].url_status)
    /\ task' = [task EXCEPT ![j].pc = "done"]
    /\ UNCHANGED <<db_items, registerVars, job_crawlers, ctl, reactor, spider,
                   pipeline, engine, web, hist, cache>>

\* lines 122-125: an exception in the task body: status "error", then
\* self.retry, which runs the task again up to max_retries times.
task_fail(j) ==
    /\ task[j].pc = "running"
    /\ db' = update_job(db, j, "error", NoCount, "Error: task", EmptyDict)
    /\ task' = IF task[j].retries < max_retries
               THEN [task EXCEPT ![j].pc = "queued", ![j].retries = @ + 1]
               ELSE [task EXCEPT ![j].pc = "done"]
    /\ UNCHANGED <<db_items, registerVars, job_crawlers, ctl, reactor, spider,
                   pipeline, engine, web, hist, cache>>

\* lines 118-120: SoftTimeLimitExceeded: status "error", no retry.
task_soft_timeout(j) ==
    /\ task[j].pc = "running"
    /\ db' = update_job(db, j, "error", NoCount, "Task timed out", EmptyDict)
    /\ task' = [task EXCEPT ![j].pc = "done"]
    /\ UNCHANGED <<db_items, registerVars, job_crawlers, ctl, reactor, spider,
                   pipeline, engine, web, hist, cache>>

(***************************************************************************)
(* The lifecycle specification: every caller operation and every step of   *)
(* the crawl and of the task, on small sites.                              *)
(***************************************************************************)
Outcomes == {"ok", "http404", "fail"}

Next ==
    \/ \E j \in Jobs, urls \in UrlLists, celery \in BOOLEAN : start_job(j, urls, celery)
    \/ \E j \in Jobs, urls \in UrlLists, celery \in BOOLEAN :
           api_start_scrape(j, urls, celery)
    \/ \E j \in Jobs, urls \in UrlLists : start_job_unavailable(j, urls)
    \/ \E j \in Jobs, urls \in UrlLists : start_scrape_job(j, urls)
    \/ \E j \in Jobs : background_start(j)
    \/ \E j \in Jobs, o \in {"ok", "raise", "fail"} : start_in_reactor(j, o)
    \/ \E j \in Jobs : start_requests(j)
    \/ \E j \in Jobs : dispatch(j)
    \/ \E j \in Jobs : \E r \in engine[j].inflight, o \in Outcomes : respond(j, r, o)
    \/ \E j \in Jobs : close_spider(j)
    \/ \E j \in Jobs : on_complete(j)
    \/ \E j \in Jobs : stop_job(j)
    \/ \E j \in Jobs : stop_in_reactor(j)
    \/ \E j \in Jobs : task_begin(j)
    \/ \E j \in Jobs, raises \in BOOLEAN : task_crawl_url(j, raises)
    \/ \E j \in Jobs, timeout \in BOOLEAN : task_finish(j, timeout)
    \/ \E j \in Jobs : task_fail(j)
    \/ \E j \in Jobs : task_soft_timeout(j)

Spec == Init /\ [][Next]_vars

(***************************************************************************)
(* The aggregator specification: process_item applied to arbitrary         *)
(* fragments (WebsiteItem dicts), whatever spider produced them.           *)
(***************************************************************************)
FirstJob == CHOOSE j \in JobIds : \A k \in JobIds : j <= k

BoundedSeqs(S, n) == UNION {[1..k -> S] : k \in 0..n}

\* The vcard_files entries and lawyer_profiles entries fragments are made of:
\* two cards of one URL that differ in content, and a card of another URL;
\* one profile before and after its card was attached.
VcardEntries ==
    {[url |-> VcfUrl(1, 1), content |-> c] : c \in 1..2}
    \cup {[url |-> VcfUrl(1, 2), content |-> 1]}

ProfileEntries ==
    {[profile_url |-> PageUrl(1, 1), lawyer_email |-> 1, vcard_content |-> c] :
        c \in {NoContent, 1}}

\* The fragments of the first site: every combination of addresses, of the
\* four other value lists (empty or not), and of the two entry lists.
RichFragments ==
    {[website |-> Root(1), emails |-> es,
      phones |-> IF a THEN {1} ELSE {},
      vcard_links |-> IF a THEN {VcfUrl(1, 1)} ELSE {},
      pdf_links |-> IF a THEN {PageUrl(1, 1)} ELSE {},
      image_links |-> IF a THEN {PageUrl(1, 2)} ELSE {},
      vcard_files |-> vf, lawyer_profiles |-> lp] :
        es \in SUBSET (1..MaxEmails), a \in BOOLEAN,
        vf \in BoundedSeqs(VcardEntries, MaxEntries),
        lp \in BoundedSeqs(ProfileEntries, MaxEntries)}

\* The fragments of the other sites: addresses only.
PlainFragments ==
    {[website |-> Root(d), emails |-> es, phones |-> {}, vcard_links |-> {},
      pdf_links |-> {}, image_links |-> {}, vcard_files |-> <<>>,
      lawyer_profiles |-> <<>>] :
        d \in Domains \ {1}, es \in {{}, {1}}}

Fragments == RichFragments \cup PlainFragments

\* The pipeline of job j is handed fragment f.
MergeFragment(j, f) ==
    /\ process_item(j, <<f>>)
    /\ progress' = Ensured(j).progress
    /\ scraped_items' = Ensured(j).scraped_items
    /\ job_cancelled' = Ensured(j).job_cancelled
    /\ UNCHANGED <<db, db_items, job_crawlers, ctl, reactor, spider, engine, task,
                   web, hist, cache>>

NextMerge == \E f \in Fragments : MergeFragment(FirstJob, f)

SpecMerge == Init /\ [][NextMerge]_vars

(***************************************************************************)
(* The caps specification: in-memory jobs crawl sites whose root page      *)
(* links to more sub-pages than a cap allows; every fetch succeeds and     *)
(* the engine keeps one fetch in flight.                                   *)
(***************************************************************************)
InitCaps ==
    /\ InitState
    /\ web \in {[n |-> StarSite, conc |-> 1, chain |-> 0],
               [n |-> HugeSite, conc |-> 1, chain |-> 0]}

NextCaps ==
    \/ \E j \in Jobs, urls \in UrlLists \ {<<>>} : start_job(j, urls, FALSE)
    \/ \E j \in Jobs : background_start(j)
    \/ \E j \in Jobs : start_in_reactor(j, "ok")
    \/ \E j \in Jobs : start_requests(j)
    \/ \E j \in Jobs : dispatch(j)
    \/ \E j \in Jobs : \E r \in engine[j].inflight : respond(j, r, "ok")
    \/ \E j \in Jobs : close_spider(j)
    \/ \E j \in Jobs : on_complete(j)

SpecCaps == InitCaps /\ [][NextCaps]_vars

(***************************************************************************)
(* The cache specification: threads call save_search_cache and             *)
(* get_cached_search, the periodic task calls clear_expired_cache, the     *)
(* clock advances.  Each call runs in its own session (transaction).       *)
(***************************************************************************)
otherVars ==
    <<db, db_items, progress, scraped_items, live_results, job_cancelled,
      job_crawlers, ctl, reactor, spider, pipeline, engine, task, web, hist>>

\* save_search_cache up to session.add: the DELETE of the key's rows is
\* executed in the session, the new row is built.
save_begin(t, a, v, ttl_hours) ==
    /\ cache.tx[t].pc = "idle"
    /\ cache.next_id <= MaxPuts
    /\ LET key == make_cache_key(a)
           row == [id |-> cache.next_id, cache_key |-> key,
                   results_json |-> dumps(v.results),
                   total_results |-> v.total_results,
                   expires_at |-> ExpiresAt(cache.now, ttl_hours)]
       IN cache' = [cache EXCEPT
                      !.next_id = @ + 1,
                      !.tx[t] = [pc |-> "put", key |-> key,
                                 deleted |-> {r.id : r \in RowsOf(cache.rows, key)},
                                 row |-> row, ttl_hours |-> ttl_hours,
                                 put_at |-> cache.now, ret |-> NoRet]]
    /\ UNCHANGED otherVars

\* session.commit() of save_search_cache: the delete and the insert take
\* effect together, unless another session has committed a row of the key in
\* between: then the unique column rejects the insert, the session is rolled
\* back and the exception raised.
save_commit(t) ==
    /\ cache.tx[t].pc = "put"
    /\ LET tx == cache.tx[t]
           kept == {r \in cache.rows : r.id \notin tx.deleted}
       IN IF UniqueOk(kept, tx.row)
          THEN cache' = [cache EXCEPT
                           !.rows = kept \cup {tx.row},
                           !.last = Put(@, tx.key,
                                        [id |-> tx.row.id,
                                         results |-> loads(tx.row.results_json),
                                         total_results |-> tx.row.total_results,
                                         expires_at |-> tx.row.expires_at,
                                         ttl_hours |-> tx.ttl_hours,
                                         put_at |-> tx.put_at]),
                           !.tx[t] = [pc |-> "idle",
                                      ret |-> [op |-> "put", key |-> tx.key,
                                               ok |-> TRUE, id |-> tx.row.id]]]
          ELSE cache' = [cache EXCEPT
                           !.tx[t] = [pc |-> "idle",
                                      ret |-> [op |-> "put", key |-> tx.key,
                                               ok |-> FALSE, id |-> tx.row.id]]]
    /\ UNCHANGED otherVars

\* get_cached_search: the query and the two tests.  A live row is returned,
\* an expired row is left to be deleted, no row is a miss.
get_cached_search(t, a) ==
    /\ cache.tx[t].pc = "idle"
    /\ LET key == make_cache_key(a)
           found == RowsOf(cache.rows, key)
           row == CHOOSE r \in found : TRUE
       IN cache' =
            IF found = {}
            THEN [cache EXCEPT
                    !.tx[t] = [pc |-> "idle",
                               ret |-> [op |-> "get", key |-> key, hit |-> FALSE,
                                        at |-> cache.now, evicted |-> 0]]]
            ELSE IF ~is_expired(row, cache.now)
            THEN [cache EXCEPT
                    !.tx[t] = [pc |-> "idle",
                               ret |-> [op |-> "get", key |-> key, hit |-> TRUE,
                                        results |-> loads(row.results_json),
                                        total_results |-> row.total_results,
                                        id |-> row.id,
                                        expires_at |-> row.expires_at,
                                        at |-> cache.now]]]
            ELSE [cache EXCEPT
                    !.tx[t] = [pc |-> "evict", key |-> key, row |-> row,
                               at |-> cache.now, ret |-> NoRet]]
    /\ UNCHANGED otherVars

\* get_cached_search, lines 373-376: the expired row is deleted (by its
\* primary key), the delete committed, None returned.
get_evict(t) ==
    /\ cache.tx[t].pc = "evict"
    /\ LET tx == cache.tx[t]
       IN cache' = [cache EXCEPT
                      !.rows = {r \in @ : r.id # tx.row.id},
                      !.tx[t] = [pc |-> "idle",
                                 ret |-> [op |-> "get", key |-> tx.key, hit |-> FALSE,
                                          at |-> tx.at, evicted |-> tx.row.id]]]
    /\ UNCHANGED otherVars

\* clear_expired_cache: the rows with expires_at < utcnow() are deleted.
clear_expired_cache ==
    /\ cache' = [cache EXCEPT !.rows = {r \in @ : ~(r.expires_at < cache.now)}]
    /\ UNCHANGED otherVars

\* An hour passes.
tick ==
    /\ cache.now < MaxTime
    /\ cache' = [cache EXCEPT !.now = @ + 1]
    /\ UNCHANGED otherVars

NextCache ==
    \/ \E t \in Threads, a \in CacheArgs, v \in CacheValues, ttl \in 0..MaxTtl :
           save_begin(t, a, v, ttl)
    \/ \E t \in Threads : save_commit(t)
    \/ \E t \in Threads, a \in CacheArgs : get_cached_search(t, a)
    \/ \E t \in Threads : get_evict(t)
    \/ clear_expired_cache
    \/ tick

SpecCache == Init /\ [][NextCache]_vars

(***************************************************************************)
(* The timed specification: the lifecycle with the wall clock.  Time is    *)
(* counted from the job's start in units of the task's soft time limit     *)
(* (celery_config.py: task_soft_time_limit=3300, below the 3600 of the     *)
(* task's join): the limit is the only timer a job started by start_job    *)
(* has, and it runs in the Celery worker only.                             *)
(***************************************************************************)
SOFT_TIME_LIMIT == 1

\* The crawl of the job is under way.
CrawlRunning(j) == engine[j].state = "running" \/ task[j].pc = "running"

\* Time passes.  In a Celery worker the limit raises SoftTimeLimitExceeded
\* in the running task when it is reached, so time does not go on with the
\* task still running; nothing of the kind holds a crawl in memory up.
clock_tick(j) ==
    /\ ctl[j].mode # "none"
    /\ hist[j].clock < MaxClock
    /\ ~(task[j].pc = "running" /\ hist[j].clock >= SOFT_TIME_LIMIT)
    /\ hist' = [hist EXCEPT
                  ![j].clock = @ + 1,
                  ![j].overran = @ \/ (hist[j].clock >= SOFT_TIME_LIMIT /\ CrawlRunning(j))]
    /\ UNCHANGED <<db, db_items, progress, scraped_items, live_results, job_cancelled,
                   job_crawlers, ctl, reactor, spider, pipeline, engine, task, web, cache>>

NextTimed ==
    \/ Next
    \/ \E j \in Jobs : clock_tick(j)

SpecTimed == Init /\ [][NextTimed]_vars

(***************************************************************************)
(* The serial specification: several jobs of one seed each are started in  *)
(* memory, one after the other or at once, and every step of their crawls  *)
(* succeeds.  _background_start runs under _crawl_serial_lock from its     *)
(* cancel test to reactor.callFromThread, which returns at once: the       *)
(* action background_start is what the lock makes atomic.                  *)
(***************************************************************************)
NextSerial ==
    \/ \E j \in JobIds : start_job(j, Seeds(1), FALSE)
    \/ \E j \in JobIds : start_scrape_job(j, Seeds(1))
    \/ \E j \in JobIds : background_start(j)
    \/ \E j \in JobIds : start_in_reactor(j, "ok")
    \/ \E j \in JobIds : start_requests(j)
    \/ \E j \in JobIds : dispatch(j)
    \/ \E j \in JobIds : \E r \in engine[j].inflight : respond(j, r, "ok")
    \/ \E j \in JobIds : close_spider(j)
    \/ \E j \in JobIds : on_complete(j)

SpecSerial == Init /\ [][NextSerial]_vars

(***************************************************************************)
(* The shared-register specification: two jobs, and the page "/" of the    *)
(* application, whose scrape action calls reset_progress() (app.py line    *)
(* 639).                                                                   *)
(***************************************************************************)
\* reset_progress() with no job id: the progress entries and the final
\* items of every job are dropped (lines 350-357).
reset_progress_all ==
    /\ progress' = EmptyDict
    /\ scraped_items' = EmptyDict
    /\ UNCHANGED <<db, db_items, live_results, job_cancelled, job_crawlers, ctl,
                   reactor, spider, pipeline, engine, task, web, hist, cache>>

NextShared == NextSerial \/ reset_progress_all

SpecShared == Init /\ [][NextShared]_vars

(***************************************************************************)
(* The same-domain specification: a job whose seeds are two pages of one   *)
(* domain, the root of a site and the team page the root links to.         *)
(***************************************************************************)
SameDomainSeeds == <<Root(1), PageUrl(1, 1)>>

NextSameDomain ==
    \/ \E j \in Jobs : start_job(j, SameDomainSeeds, FALSE)
    \/ \E j \in Jobs : background_start(j)
    \/ \E j \in Jobs : start_in_reactor(j, "ok")
    \/ \E j \in Jobs : start_requests(j)
    \/ \E j \in Jobs : dispatch(j)
    \/ \E j \in Jobs : \E r \in engine[j].inflight, o \in Outcomes : respond(j, r, o)
    \/ \E j \in Jobs : close_spider(j)
    \/ \E j \in Jobs : on_complete(j)

SpecSameDomain == Init /\ [][NextSameDomain]_vars

(***************************************************************************)
(* The deep-site specification: every site is a chain of MaxChain          *)
(* sub-pages, each linked from the one before it.                          *)
(***************************************************************************)
InitDeep ==
    /\ InitState
    /\ web = [n |-> 1, conc |-> MaxInFlight, chain |-> MaxChain]

NextDeep ==
    \/ \E j \in Jobs, urls \in UrlLists \ {<<>>} : start_job(j, urls, FALSE)
    \/ \E j \in Jobs : background_start(j)
    \/ \E j \in Jobs : start_in_reactor(j, "ok")
    \/ \E j \in Jobs : start_requests(j)
    \/ \E j \in Jobs : dispatch(j)
    \/ \E j \in Jobs : \E r \in engine[j].inflight : respond(j, r, "ok")
    \/ \E j \in Jobs : close_spider(j)
    \/ \E j \in Jobs : on_complete(j)

SpecDeep == InitDeep /\ [][NextDeep]_vars

(***************************************************************************)
(* The lifecycle specification with its scheduling: the starter thread     *)
(* runs, the reactor runs the calls queued on it, the engine keeps         *)
(* scheduling and closes when idle, every fetch in flight returns, the     *)
(* worker runs the task it was sent and the crawl thread goes on.  Calls   *)
(* of the API and faults of the task may or may not happen.                *)
(***************************************************************************)
\* A fetch of the job is in flight in an engine that is not closed: respond
\* is enabled.
CanReturn(j) == engine[j].state \in {"running", "closing"} /\ engine[j].inflight # {}

\* Weak fairness of every step of the crawl and of the task; that of
\* respond is written out (it is enabled exactly when CanReturn holds).
Fairness ==
    \A j \in Jobs :
        /\ WF_vars(background_start(j))
        /\ WF_vars(\E o \in {"ok", "raise", "fail"} : start_in_reactor(j, o))
        /\ WF_vars(start_requests(j))
        /\ WF_vars(dispatch(j))
        /\ \/ []<>(~CanReturn(j))
           \/ []<><<\E r \in engine[j].inflight, o \in Outcomes : respond(j, r, o)>>_vars
        /\ WF_vars(close_spider(j))
        /\ WF_vars(on_complete(j))
        /\ WF_vars(stop_in_reactor(j))
        /\ WF_vars(task_begin(j))
        /\ WF_vars(\E raises \in BOOLEAN : task_crawl_url(j, raises))
        /\ WF_vars(\E timeout \in BOOLEAN : task_finish(j, timeout))

SpecLive == Init /\ [][Next]_vars /\ Fairness

(***************************************************************************)
(* The polling specification: a client polls a job while it runs.  The     *)
(* reads and close_spider are taken lock by lock: each step is what one    *)
(* "with <lock>:" block does.                                              *)
(***************************************************************************)
\* get_scraping_progress(j) by a poller: the register entry is copied
\* under progress_lock (dict.copy(): the values of the keys are shared).
poll_progress(j) ==
    /\ Started(j)
    /\ progress' = Ensured(j).progress
    /\ scraped_items' = Ensured(j).scraped_items
    /\ live_results' = Ensured(j).live_results
    /\ job_cancelled' = Ensured(j).job_cancelled
    /\ hist' = [hist EXCEPT ![j].snap = [held |-> TRUE, copy |-> Ensured(j).progress[j]]]
    /\ UNCHANGED <<db, db_items, job_crawlers, ctl, reactor, spider, pipeline,
                   engine, task, web, cache>>

\* get_scraped_items(j) by a poller, lines 397-401: the final items are
\* copied under items_lock.  merged: a fragment of the job had been merged
\* when the call began.
read_final(j) ==
    /\ Started(j)
    /\ hist[j].reader.pc = "idle"
    /\ progress' = Ensured(j).progress
    /\ scraped_items' = Ensured(j).scraped_items
    /\ live_results' = Ensured(j).live_results
    /\ job_cancelled' = Ensured(j).job_cancelled
    /\ hist' = [hist EXCEPT ![j].reader =
                   [pc |-> "final_read", final |-> Ensured(j).scraped_items[j],
                    merged |-> pipeline[j] # <<>>, returned |-> FALSE, result |-> <<>>]]
    /\ UNCHANGED <<db, db_items, job_crawlers, ctl, reactor, spider, pipeline,
                   engine, task, web, cache>>

\* lines 403-409: the final items are returned if there are any, else the
\* live snapshots, read under live_results_lock.
read_live(j) ==
    /\ hist[j].reader.pc = "final_read"
    /\ hist' = [hist EXCEPT ![j].reader =
                   [@ EXCEPT !.pc = "idle", !.returned = TRUE,
                             !.result = IF hist[j].reader.final # <<>>
                                        THEN hist[j].reader.final ELSE LiveOnly(j)]]
    /\ UNCHANGED <<db, db_items, registerVars, job_crawlers, ctl, reactor, spider,
                   pipeline, engine, task, web, cache>>

\* close_spider, lines 294-308: under items_lock the final items are
\* appended.
close_spider_items(j) ==
    /\ SpiderDone(j)
    /\ engine' = [engine EXCEPT ![j].state = "saved"]
    /\ scraped_items' =
           LET s == Ensured(j).scraped_items
           IN Put(s, j, s[j] \o [i \in DOMAIN pipeline[j] |-> FinalItem(pipeline[j][i])])
    /\ progress' = Ensured(j).progress
    /\ live_results' = Ensured(j).live_results
    /\ job_cancelled' = Ensured(j).job_cancelled
    /\ UNCHANGED <<db, db_items, job_crawlers, ctl, reactor, spider, pipeline, task,
                   web, hist, cache>>

\* close_spider, lines 310-312: under live_results_lock the live snapshots
\* of the job are dropped.
close_spider_live(j) ==
    /\ engine[j].state = "saved"
    /\ engine' = [engine EXCEPT ![j].state = "cleared"]
    /\ live_results' = Pop(live_results, j)
    /\ UNCHANGED <<db, db_items, progress, scraped_items, job_cancelled, job_crawlers,
                   ctl, reactor, spider, pipeline, task, web, hist, cache>>

\* close_spider, lines 314-326: under progress_lock the entry is closed.
close_spider_progress(j) ==
    /\ engine[j].state = "cleared"
    /\ engine' = [engine EXCEPT ![j].state = "closed"]
    /\ progress' = Put(progress, j, ClosedProgress(get_scraping_progress(j)))
    /\ UNCHANGED <<db, db_items, scraped_items, live_results, job_cancelled,
                   job_crawlers, ctl, reactor, spider, pipeline, task, web, hist, cache>>

NextPoll ==
    \/ \E j \in Jobs, urls \in UrlLists \ {<<>>} : start_job(j, urls, FALSE)
    \/ \E j \in Jobs : background_start(j)
    \/ \E j \in Jobs : start_in_reactor(j, "ok")
    \/ \E j \in Jobs : start_requests(j)
    \/ \E j \in Jobs : dispatch(j)
    \/ \E j \in Jobs : \E r \in engine[j].inflight : respond(j, r, "ok")
    \/ \E j \in Jobs : close_spider_items(j)
    \/ \E j \in Jobs : close_spider_live(j)
    \/ \E j \in Jobs : close_spider_progress(j)
    \/ \E j \in Jobs : on_complete(j)
    \/ \E j \in Jobs : poll_progress(j)
    \/ \E j \in Jobs : read_final(j)
    \/ \E j \in Jobs : read_live(j)

SpecPoll == Init /\ [][NextPoll]_vars

\* The dict the poller holds, as it reads it now: its own keys, and under
\* url_status the dict of the register entry, which update_progress and
\* close_spider write in place (lines 319-320, 381).
HeldSnapshot(j) ==
    [hist[j].snap.copy EXCEPT !.url_status = get_scraping_progress(j).url_status]

(***************************************************************************)
(* Claims.                                                                 *)
(***************************************************************************)
Terminal == {"completed", "cancelled", "error"}

\* C1: a job's status, in the job row and in the progress entry, never
\* leaves a terminal value (completed, cancelled, error) and never goes back
\* from running to pending: no step changes a terminal status.
C1_TerminalStatusIsFinal ==
    [][\A j \in JobIds :
          /\ (j \in DOMAIN db /\ db[j].status \in Terminal)
                => (j \in DOMAIN db' /\ db'[j].status = db[j].status)
          /\ (j \in DOMAIN db /\ db[j].status = "running")
                => (j \in DOMAIN db' /\ db'[j].status # "pending")
          /\ (j \in DOMAIN progress /\ progress[j].status \in Terminal)
                => (j \in DOMAIN progress' /\ progress'[j].status = progress[j].status)]_vars

\* C2: once Cancel was called on a job that was running, every read of the
\* job's progress (get_job_progress) reports the status cancelled, also after
\* the crawl has wound down and its completion callback has run.
C2_CancelledStaysReported ==
    \A j \in JobIds :
        hist[j].cancel_running => get_job_progress(j).status = "cancelled"

\* A response is merged: the site records of the pipeline or the live
\* snapshots of the job change.
Merged(j) ==
    \/ pipeline'[j] # pipeline[j]
    \/ /\ j \in DOMAIN live_results /\ j \in DOMAIN live_results'
       /\ live_results'[j] # live_results[j]

\* C3: once a job's cancel flag is set and its status is cancelled, no step
\* merges a parsed page response into the job's site records or its live
\* snapshots.
C3_NoMergeAfterCancel ==
    [][\A j \in JobIds :
          (/\ is_job_cancelled(j)
           /\ j \in DOMAIN progress /\ progress[j].status = "cancelled"
           /\ get_job_progress(j).status = "cancelled")
          => ~Merged(j)]_vars

\* C4: once a job's cancel flag is set, no step schedules a new fetch for
\* the job: the scheduler's queue gains no request (seed, follow-up page or
\* contact card).
C4_NoScheduleAfterCancel ==
    [][\A j \in JobIds :
          is_job_cancelled(j) => Len(engine'[j].queue) <= Len(engine[j].queue)]_vars

\* C5: a Start call with an empty URL list creates no job: no job record and
\* no progress entry exists for a job id whose URL list is empty.
C5_EmptyStartCreatesNothing ==
    \A j \in JobIds :
        (ctl[j].mode # "none" /\ ctl[j].urls = <<>>)
        => (j \notin DOMAIN db /\ j \notin DOMAIN progress)

\* The number of seed URLs a snapshot marks "completed".
CompletedSeeds(snap) ==
    Cardinality({u \in Range(snap.urls) :
                     u \in DOMAIN snap.url_status /\ snap.url_status[u] = "completed"})

\* The snapshots of job j a caller can read: the job row, the progress entry.
Snapshots(j) ==
    (IF j \in DOMAIN db THEN {db[j]} ELSE {})
    \cup (IF j \in DOMAIN progress THEN {progress[j]} ELSE {})

\* C6: in every snapshot of a job the completed count is at most the number
\* of seed URLs, and in a final snapshot (terminal status) it equals the
\* number of seed URLs whose per-URL status is completed.
C6_CompletedCountMatches ==
    \A j \in JobIds : \A snap \in Snapshots(j) :
        /\ snap.completed <= Len(snap.urls)
        /\ snap.status \in Terminal => snap.completed = CompletedSeeds(snap)

\* Seed u of job j was fetched and parsed: the pipeline holds its record.
SeedSucceeded(j, u) == \E i \in DOMAIN pipeline[j] : pipeline[j][i].website = u

\* C7: when the crawl of a job (not cancelled) is over and one seed's fetch
\* failed while another seed's succeeded, the job's status is completed, the
\* failed seed's status is error and the successful seed's is completed.
C7_FailureStaysOnItsUrl ==
    \A j \in JobIds :
        (/\ engine[j].state = "done"
         /\ ~is_job_cancelled(j)
         /\ j \in DOMAIN progress
         /\ \E u \in Range(ctl[j].urls) : u \in hist[j].failed
         /\ \E u \in Range(ctl[j].urls) : u \notin hist[j].failed /\ SeedSucceeded(j, u))
        => /\ progress[j].status = "completed"
           /\ \A u \in Range(ctl[j].urls) :
                 /\ u \in hist[j].failed => progress[j].url_status[u] = "error"
                 /\ (u \notin hist[j].failed /\ SeedSucceeded(j, u))
                       => progress[j].url_status[u] = "completed"

RECURSIVE SumOver(_, _)
SumOver(d, keys) ==
    IF keys = {} THEN 0
    ELSE LET k == CHOOSE x \in keys : TRUE IN d[k] + SumOver(d, keys \ {k})

\* The fetches the engine has dispatched for job j, over all its sites.
TotalDispatched(j) == SumOver(engine[j].dispatched, DOMAIN engine[j].dispatched)

\* C8: in every state, the fetches dispatched for any one seed site of a job
\* are at most MAX_PAGES_PER_SITE and the fetches dispatched for the job are
\* at most MAX_TOTAL_PAGES.
C8_CapsNeverExceeded ==
    \A j \in JobIds :
        /\ \A b \in DOMAIN engine[j].dispatched :
              engine[j].dispatched[b] <= MAX_PAGES_PER_SITE
        /\ TotalDispatched(j) <= MAX_TOTAL_PAGES

\* C9: on a site with more discoverable pages than the per-site cap, the
\* fetches dispatched for the site stop at the cap: there are never more,
\* there are exactly MAX_PAGES_PER_SITE once the crawl is over, and the job
\* is not in the error status.
C9_ExactlyCapFetches ==
    \A j \in JobIds :
        web.n > MAX_PAGES_PER_SITE
        => \A b \in DOMAIN engine[j].dispatched :
              /\ engine[j].dispatched[b] <= MAX_PAGES_PER_SITE
              /\ engine[j].state \in {"closed", "done"}
                    => /\ engine[j].dispatched[b] = MAX_PAGES_PER_SITE
                       /\ progress[j].status # "error"

\* C10: the aggregator's merge is idempotent: for the site records the
\* pipeline holds and every fragment, merging the fragment twice gives the
\* same site records (addresses, phones, document, image and contact-card
\* links, contact-card entries, profile entries) and the same live snapshot
\* as merging it once.
C10_MergeIdempotent ==
    \A f \in Fragments :
        LET once == ItemsAfter(pipeline[FirstJob], f)
            twice == ItemsAfter(once, f)
        IN /\ twice = once
           /\ LiveSnapshot(twice[IndexOf(twice, f.website)])
                 = LiveSnapshot(once[IndexOf(once, f.website)])

\* C10's case: records of two sites were merged, the first holding two
\* contact-card entries, a profile entry and addresses, and some fragment
\* with a contact-card entry was merged that changes nothing when merged
\* again.
C10_Witness ==
    /\ Len(pipeline[FirstJob]) = 2
    /\ \E i \in DOMAIN pipeline[FirstJob] :
          /\ Len(pipeline[FirstJob][i].vcard_files) = 2
          /\ Len(pipeline[FirstJob][i].lawyer_profiles) = 1
          /\ pipeline[FirstJob][i].emails = 1..MaxEmails
    /\ \E f \in Fragments :
          /\ Len(f.vcard_files) = MaxEntries
          /\ ItemsAfter(pipeline[FirstJob], f) = pipeline[FirstJob]
    /\ FirstJob \in DOMAIN live_results
    /\ Len(live_results[FirstJob]) = 2

\* A final site record with its two entry lists read as sets, so that two
\* records that differ only in the order of their entries are the same.
Unordered(rec) ==
    [rec EXCEPT !.vcard_files = Range(@), !.lawyer_profiles = Range(@)]

\* The final record of site w after the fragments of seq were merged, in
\* order, into the records items_by_url.
RECURSIVE MergeAll(_, _)
MergeAll(items_by_url, seq) ==
    IF seq = <<>> THEN items_by_url
    ELSE MergeAll(ItemsAfter(items_by_url, Head(seq)), Tail(seq))

FinalRecord(items_by_url, w) == FinalItem(items_by_url[IndexOf(items_by_url, w)])

\* C11: the aggregator's merge is commutative: for the site records the
\* pipeline holds and every two fragments A and B of one site, merging A
\* then B gives the same final site record (entry lists compared without
\* their order) as merging B then A.
C11_MergeCommutative ==
    \A A \in Fragments, B \in Fragments :
        A.website = B.website
        => Unordered(FinalRecord(MergeAll(pipeline[FirstJob], <<A, B>>), A.website))
              = Unordered(FinalRecord(MergeAll(pipeline[FirstJob], <<B, A>>), A.website))

\* Thread t's call of get_cached_search returns in this step.
GetReturns(t) ==
    /\ cache'.tx[t].pc = "idle"
    /\ cache'.tx[t].ret.op = "get"
    /\ cache.tx[t] # cache'.tx[t]

\* Thread t's call of get_cached_search makes its query in this step.
GetQueries(t) ==
    /\ cache.tx[t].pc = "idle"
    /\ cache'.tx[t] # cache.tx[t]
    /\ \/ cache'.tx[t].pc = "evict"
       \/ cache'.tx[t].pc = "idle" /\ cache'.tx[t].ret.op = "get"

\* The key thread t's call is about, after the step.
KeyAfter(t) ==
    IF cache'.tx[t].pc = "evict" THEN cache'.tx[t].key ELSE cache'.tx[t].ret.key

\* C12: cache round trip: a get_cached_search of a key whose last committed
\* save_search_cache had a positive ttl that has not elapsed returns that
\* call's value: the same result list and the same total.
C12_CacheRoundTrip ==
    [][\A t \in Threads :
          (/\ GetQueries(t)
           /\ KeyAfter(t) \in DOMAIN cache.last
           /\ cache.last[KeyAfter(t)].ttl_hours > 0
           /\ cache.now < cache.last[KeyAfter(t)].put_at
                              + cache.last[KeyAfter(t)].ttl_hours)
          => /\ cache'.tx[t].pc = "idle"
             /\ cache'.tx[t].ret.hit
             /\ cache'.tx[t].ret.results = cache.last[KeyAfter(t)].results
             /\ cache'.tx[t].ret.total_results
                   = cache.last[KeyAfter(t)].total_results]_vars

\* C12's case: a get returned, an hour or more after the save and before
\* its ttl elapsed, the two-element list that was saved.
C12_Witness ==
    \E t \in Threads :
        /\ cache.tx[t].pc = "idle"
        /\ cache.tx[t].ret.op = "get"
        /\ cache.tx[t].ret.hit
        /\ cache.tx[t].ret.key \in DOMAIN cache.last
        /\ cache.last[cache.tx[t].ret.key].id = cache.tx[t].ret.id
        /\ cache.last[cache.tx[t].ret.key].put_at < cache.tx[t].ret.at
        /\ cache.tx[t].ret.at < cache.tx[t].ret.expires_at
        /\ Len(cache.tx[t].ret.results) = 2

\* C13: an entry is never served past its expiry: a get_cached_search whose
\* query finds a row whose expiry time has passed goes on to delete it, a
\* get never returns a row whose expiry time had passed, and when the get
\* returns after the delete it reports a miss and the row is gone.
C13_ExpiredIsMissAndEvicted ==
    [][\A t \in Threads :
          /\ (GetQueries(t)
              /\ \E r \in RowsOf(cache.rows, KeyAfter(t)) : cache.now > r.expires_at)
             => cache'.tx[t].pc = "evict"
          /\ (GetReturns(t) /\ cache'.tx[t].ret.hit)
             => cache'.tx[t].ret.at <= cache'.tx[t].ret.expires_at
          /\ (cache.tx[t].pc = "evict" /\ GetReturns(t))
             => /\ ~cache'.tx[t].ret.hit
                /\ cache.tx[t].row \notin cache'.rows]_vars

\* C13's case: a get found an expired row, deleted it and returned a miss.
C13_Witness ==
    \E t \in Threads :
        /\ cache.tx[t].pc = "idle"
        /\ cache.tx[t].ret.op = "get"
        /\ ~cache.tx[t].ret.hit
        /\ cache.tx[t].ret.evicted # 0
        /\ \A r \in cache.rows : r.id # cache.tx[t].ret.evicted

\* Thread t's call of save_search_cache commits in this step.
PutCommits(t) ==
    /\ cache.tx[t].pc = "put"
    /\ cache'.tx[t].pc = "idle"
    /\ cache'.tx[t].ret.ok

\* C14: the cache holds at most one row per key, and a committed
\* save_search_cache replaces the key's row: afterwards the key's only row
\* is the new one, with the new result list, total and expiry.
C14_OneEntryPerKey ==
    /\ [](\A r1 \in cache.rows, r2 \in cache.rows :
             r1.cache_key = r2.cache_key => r1 = r2)
    /\ [][\A t \in Threads :
             PutCommits(t) => RowsOf(cache'.rows, cache.tx[t].key) = {cache.tx[t].row}]_vars

\* C14's case: a save replaced the row another save had put under the key,
\* and a save that ran concurrently with a save of the same key was refused.
C14_Witness ==
    /\ \E t \in Threads :
          /\ cache.tx[t].pc = "idle"
          /\ cache.tx[t].ret.op = "put"
          /\ cache.tx[t].ret.ok
          /\ cache.tx[t].ret.id = MaxPuts
          /\ \E r \in cache.rows : r.id = MaxPuts /\ r.cache_key = cache.tx[t].ret.key
          /\ Cardinality(cache.rows) = 1
    /\ \E u \in Threads :
          /\ cache.tx[u].pc = "idle"
          /\ cache.tx[u].ret.op = "put"
          /\ ~cache.tx[u].ret.ok

\* The mailbox of the address (the part before the "@") is one of the
\* generic mailboxes.
IsGenericMailbox(email) ==
    \E k \in DOMAIN GENERIC_EMAIL_PATTERNS :
        LET p == GENERIC_EMAIL_PATTERNS[k]
        IN /\ Len(email) >= Len(p)
           /\ SubSeq(lower(email), 1, Len(p)) = p

\* C15: generic-address filter: the record of a site whose root page was
\* parsed holds an address of that page exactly when the address is not a
\* generic mailbox (jane@firm-a.example is kept, info@firm-a.example is
\* dropped); a generic word elsewhere in the address, as in its domain,
\* does not exclude it.
C15_GenericMailboxesOnly ==
    \A j \in JobIds :
        \A i \in DOMAIN pipeline[j] :
            \A e \in RawEmailsOn(pipeline[j][i].website) :
                (e \in pipeline[j][i].emails) <=> ~IsGenericMailbox(Address(e))

\* The entries of the list have distinct profile URLs / source URLs.
DistinctProfiles(profiles) ==
    \A a \in DOMAIN profiles, b \in DOMAIN profiles :
        profiles[a].profile_url = profiles[b].profile_url => a = b

DistinctCards(files) ==
    \A a \in DOMAIN files, b \in DOMAIN files : files[a].url = files[b].url => a = b

Deduplicated(rec) ==
    DistinctProfiles(rec.lawyer_profiles) /\ DistinctCards(rec.vcard_files)

\* C16: every site record (the spider's, the aggregator's, the live
\* snapshot and the final record) holds at most one profile per profile URL
\* and at most one contact-card entry per source URL.
C16_RecordsDeduplicated ==
    \A j \in JobIds :
        /\ \A b \in DOMAIN spider[j].site_data : Deduplicated(spider[j].site_data[b])
        /\ \A i \in DOMAIN pipeline[j] : Deduplicated(pipeline[j][i])
        /\ j \in DOMAIN live_results
              => \A i \in DOMAIN live_results[j] : Deduplicated(live_results[j][i])
        /\ j \in DOMAIN scraped_items
              => \A i \in DOMAIN scraped_items[j] : Deduplicated(scraped_items[j][i])

\* C16's case: a final record holds the one profile and the one contact
\* card of a site whose profile page and card each came in several items.
C16_Witness ==
    \E j \in DOMAIN scraped_items :
        \E i \in DOMAIN scraped_items[j] :
            /\ Len(scraped_items[j][i].lawyer_profiles) = 1
            /\ Len(scraped_items[j][i].vcard_files) = 1
            /\ scraped_items[j][i].lawyer_profiles[1].vcard_content # NoContent

\* C17: one consolidated record per site: the list get_job_results returns
\* for a job has at most one record per seed URL, and the site of every
\* record is one of the job's seed URLs.
C17_OneRecordPerSeed ==
    \A j \in JobIds :
        LET res == get_job_results(j)
        IN /\ \A a \in DOMAIN res, b \in DOMAIN res :
                 res[a].website = res[b].website => a = b
           /\ \A a \in DOMAIN res : res[a].website \in Range(ctl[j].urls)

\* C17's case: the results of a finished job of several seeds, each site
\* merged from several items, hold one record for each seed.
C17_Witness ==
    \E j \in JobIds :
        /\ engine[j].state = "done"
        /\ Len(ctl[j].urls) = MaxSeeds
        /\ Len(get_job_results(j)) = MaxSeeds
        /\ \E a \in DOMAIN get_job_results(j) :
               Len(get_job_results(j)[a].lawyer_profiles) = 1

\* The final records and the live snapshots the module holds for the job.
FinalRecords(j) == IF j \in DOMAIN scraped_items THEN scraped_items[j] ELSE <<>>

Snapshot(j) == IF j \in DOMAIN live_results THEN live_results[j] ELSE <<>>

FieldValues(rec, field) == IF field \in DOMAIN rec THEN Range(rec[field]) ELSE {}

\* Everything merged into the site's aggregated data is in the record.
Keeps(rec, data) ==
    /\ data.emails \subseteq FieldValues(rec, "emails")
    /\ data.phones \subseteq FieldValues(rec, "phones")
    /\ data.vcard_links \subseteq FieldValues(rec, "vcard_links")
    /\ data.pdf_links \subseteq FieldValues(rec, "pdf_links")
    /\ data.image_links \subseteq FieldValues(rec, "image_links")
    /\ Range(data.vcard_files) \subseteq FieldValues(rec, "vcard_files")
    /\ Range(data.lawyer_profiles) \subseteq FieldValues(rec, "lawyer_profiles")

\* C19: get_job_results never discards merged data: once the crawl of a job
\* has ended and the job is in a terminal state, every address, phone,
\* link, contact card and profile merged into a site's record is in the
\* record get_job_results returns for the site.
C19_NothingMergedIsDiscarded ==
    \A j \in JobIds :
        (engine[j].state \in {"closed", "done"} /\ get_job_progress(j).status \in Terminal)
        => \A i \in DOMAIN pipeline[j] :
               \E a \in DOMAIN get_job_results(j) :
                   /\ get_job_results(j)[a].website = pipeline[j][i].website
                   /\ Keeps(get_job_results(j)[a], pipeline[j][i])

\* C20: every job has a hard wall-clock ceiling: a job whose crawl was
\* still running when the ceiling expired has status "error" with the
\* timed-out message.
C20_CeilingForcesError ==
    \A j \in JobIds :
        hist[j].overran
        => /\ get_job_progress(j).status = "error"
           /\ get_job_progress(j).message = "Task timed out"

\* C21: no automatic retry of the whole job: once a job has been put into
\* error, its status does not return to running and its task does not
\* start again.
C21_NoRetryOfTheJob ==
    [][\A j \in JobIds :
          get_job_progress(j).status = "error"
          => /\ get_job_progress(j)'.status # "running"
             /\ (task[j].pc # "running" => task'[j].pc # "running")]_vars

\* The messages a dispatcher fault leaves (the fault's message after a
\* fixed prefix).
FaultMessages == {"Error: crawl", "Error during scraping"}

C23_PersistenceOutageTolerated ==
    \A j \in JobIds :
        ctl[j].mode = "outage"
        => /\ ctl[j].bg # "raised"
           /\ j \in DOMAIN progress
           /\ get_job_progress(j) = progress[j]
           /\ progress[j].total = Len(ctl[j].urls)
           /\ DOMAIN progress[j].url_status = Range(ctl[j].urls)

\* The crawl of the job is open: items may still be merged.
CrawlOpen(j) == engine[j].state \in {"running", "closing"}

\* The snapshot holds the values of the aggregated data, field by field.
SameValues(snap, data) ==
    /\ snap.website = data.website
    /\ snap.emails = data.emails
    /\ snap.phones = data.phones
    /\ snap.vcard_links = data.vcard_links
    /\ snap.pdf_links = data.pdf_links
    /\ snap.image_links = data.image_links
    /\ snap.vcard_files = data.vcard_files
    /\ snap.lawyer_profiles = data.lawyer_profiles

\* The later snapshot has every value of the earlier one.
NothingLost(old, new) ==
    /\ old.emails \subseteq new.emails
    /\ old.phones \subseteq new.phones
    /\ old.vcard_links \subseteq new.vcard_links
    /\ old.pdf_links \subseteq new.pdf_links
    /\ old.image_links \subseteq new.image_links
    /\ {old.vcard_files[i].url : i \in DOMAIN old.vcard_files}
          \subseteq {new.vcard_files[i].url : i \in DOMAIN new.vcard_files}
    /\ {old.lawyer_profiles[i].profile_url : i \in DOMAIN old.lawyer_profiles}
          \subseteq {new.lawyer_profiles[i].profile_url : i \in DOMAIN new.lawyer_profiles}

\* C24: while the crawl of a job is open, the live snapshot published for
\* each of its sites equals the site's aggregated record, and from one
\* snapshot of a site to the next no value is lost.
C24_LiveSnapshotFollowsAggregate ==
    /\ [](\A j \in JobIds :
             CrawlOpen(j)
             => \A i \in DOMAIN pipeline[j] :
                   /\ j \in DOMAIN live_results
                   /\ IndexOf(live_results[j], pipeline[j][i].website) # 0
                   /\ SameValues(live_results[j][IndexOf(live_results[j],
                                                         pipeline[j][i].website)],
                                 pipeline[j][i]))
    /\ [][\A j \in JobIds :
             (CrawlOpen(j) /\ engine'[j].state \in {"running", "closing"}
              /\ j \in DOMAIN live_results)
             => /\ j \in DOMAIN live_results'
                /\ \A i \in DOMAIN live_results[j] :
                      /\ IndexOf(live_results'[j], live_results[j][i].website) # 0
                      /\ NothingLost(live_results[j][i],
                                     live_results'[j][IndexOf(live_results'[j],
                                                      live_results[j][i].website)])]_vars

\* C24's case: the snapshot of a site merged from several items (its root,
\* its profile page, its contact card) holds all the aggregate holds.
C24_Witness ==
    \E j \in JobIds :
        /\ CrawlOpen(j)
        /\ j \in DOMAIN live_results
        /\ Len(live_results[j]) = MaxSeeds
        /\ \E i \in DOMAIN live_results[j] :
              /\ Cardinality(live_results[j][i].emails) = 2
              /\ Len(live_results[j][i].vcard_files) = 1
              /\ live_results[j][i].lawyer_profiles # <<>>
              /\ live_results[j][i].lawyer_profiles[1].vcard_content # NoContent

\* The list is in ascending order without a repeated element.
AscendingInts(l) == \A a \in DOMAIN l, b \in DOMAIN l : a < b => l[a] < l[b]

AscendingUrls(l) == \A a \in DOMAIN l, b \in DOMAIN l : a < b => UrlLess(l[a], l[b])

\* The final record of the aggregated data: the same values, its address,
\* phone and link lists sorted and duplicate-free.
FinalOf(rec, data) ==
    /\ rec.website = data.website
    /\ Range(rec.emails) = data.emails /\ AscendingInts(rec.emails)
    /\ Range(rec.phones) = data.phones /\ AscendingInts(rec.phones)
    /\ Range(rec.vcard_links) = data.vcard_links /\ AscendingUrls(rec.vcard_links)
    /\ Range(rec.pdf_links) = data.pdf_links /\ AscendingUrls(rec.pdf_links)
    /\ Range(rec.image_links) = data.image_links /\ AscendingUrls(rec.image_links)
    /\ rec.vcard_files = data.vcard_files
    /\ rec.lawyer_profiles = data.lawyer_profiles

\* C25: once the spider of a job is closed, every site that received a
\* fragment has a final record whose address, phone and link lists are
\* sorted and duplicate-free, and the job has no live snapshot left.
C25_FinalRecordsSortedLiveCleared ==
    \A j \in JobIds :
        engine[j].state \in {"closed", "done"}
        => /\ \A i \in DOMAIN pipeline[j] :
                 \E k \in DOMAIN FinalRecords(j) :
                     FinalOf(FinalRecords(j)[k], pipeline[j][i])
           /\ Snapshot(j) = <<>>

\* C25's case: a closed job with a final record for each of its sites, one
\* of them with two addresses.
C25_Witness ==
    \E j \in JobIds :
        /\ engine[j].state = "closed"
        /\ Len(FinalRecords(j)) = MaxSeeds
        /\ \E k \in DOMAIN FinalRecords(j) :
              /\ Len(FinalRecords(j)[k].emails) = 2
              /\ Len(FinalRecords(j)[k].vcard_links) = 1

\* C26: only one crawl runs at a time: the crawls of two jobs started in
\* memory never overlap, the crawler of one is not started before the crawl
\* of the other has finished.
C26_CrawlsAreSerial ==
    \A j \in JobIds, k \in JobIds :
        (CrawlOpen(j) /\ CrawlOpen(k)) => j = k

\* The values of a job's status.
StatusEnum == {"pending", "running", "completed", "cancelled", "error"}

\* C27: the status get_job_progress and the progress register report for a
\* job id, started or not, polled or cancelled, is one of pending, running,
\* completed, cancelled, error.
C27_StatusIsInTheEnum ==
    \A j \in JobIds :
        /\ get_job_progress(j).status \in StatusEnum
        /\ get_scraping_progress(j).status \in StatusEnum

\* A fetch of the seed URL has been dispatched for the job.
Attempted(j, u) == Count(engine[j].dispatched, u) >= 1

\* C28: every seed URL of a started job that is not cancelled is fetched,
\* in memory and in the background task alike: the job is not reported
\* completed before each of its seed URLs has been attempted.
C28_SeedsAttemptedBeforeCompleted ==
    \A j \in JobIds :
        (/\ ctl[j].mode \in {"inmemory", "celery"}
         /\ ~is_job_cancelled(j)
         /\ get_job_progress(j).status = "completed")
        => \A u \in Range(ctl[j].urls) : Attempted(j, u)

\* The requests of the job that the scheduler holds or the downloader
\* fetches.
Pending(j) == Range(engine[j].queue) \cup engine[j].inflight

\* A follow-up page request: one that parse yields at lines 536-542.
IsFollowUp(r) == r.callback = "parse" /\ ~r.dont_filter

\* C29: every follow-up page request of a job is for a seed site of the job
\* and its URL has exactly the netloc of that seed URL: a link to a
\* subdomain or to another domain is never queued as a page fetch.
C29_FollowUpsStayOnTheSeedDomain ==
    \A j \in JobIds : \A r \in Pending(j) :
        IsFollowUp(r) =>
            /\ r.base_url \in Range(ctl[j].urls)
            /\ netloc(r.url) = netloc(r.base_url)

\* The links of a seed page that has links to a subdomain and to another
\* domain have been followed: a follow-up request of the site is pending.
C29_Witness ==
    \E j \in JobIds : \E r \in Pending(j) :
        /\ IsFollowUp(r)
        /\ \E i \in DOMAIN Links(r.base_url) :
               netloc(Links(r.base_url)[i]) = SubdomainOf(netloc(r.base_url))
        /\ \E i \in DOMAIN Links(r.base_url) :
               netloc(Links(r.base_url)[i]) = Elsewhere


\* C30: no URL is queued more than once in a job: over the seed requests,
\* the follow-up page requests and the contact-card downloads, each URL is
\* handed to the scheduler's queue at most once, also when two seeds are
\* pages of one domain.
C30_NoUrlQueuedTwice ==
    \A j \in JobIds : \A u \in DOMAIN engine[j].queued :
        engine[j].queued[u] <= 1


\* The follow-up page requests parse yields on the response to request r.
FollowUpsOf(j, r) ==
    LET out == parse(spider[j], r, TRUE).requests
    IN {out[k] : k \in {n \in DOMAIN out : IsFollowUp(out[n])}}

\* C31: no page fetch is queued at a depth above the maximum depth 3: the
\* follow-up pages of a page parsed at depth d are queued at depth d + 1,
\* and only when d < 3.
C31_NoPageBeyondMaxDepth ==
    \A j \in JobIds :
        /\ \A r \in Pending(j) : r.callback = "parse" => r.depth <= MAX_DEPTH
        /\ \A r \in engine[j].inflight :
              r.callback = "parse" =>
                  \A q \in FollowUpsOf(j, r) :
                      q.depth = r.depth + 1 /\ r.depth < MAX_DEPTH

\* A page at depth 3 is being fetched that links to a page of its site
\* which was not requested yet.
C31_Witness ==
    \E j \in JobIds : \E r \in engine[j].inflight :
        /\ r.callback = "parse"
        /\ r.depth = MAX_DEPTH
        /\ \E i \in DOMAIN Links(r.url) :
               FollowLink(Links(r.url)[i], r.base_url, r.depth, spider[j].processed_urls)


\* A cap has been reached for the site of seed b: the site was flagged at
\* lines 393-395, or the job has requested MAX_TOTAL_PAGES URLs.
CapReachedFor(j, b) ==
    \/ /\ b \in DOMAIN spider[j].site_data
       /\ spider[j].site_data[b].cap_reached
    \/ Cardinality(spider[j].processed_urls) >= MAX_TOTAL_PAGES

\* C32: once the per-site cap or the global cap has been reached for a
\* site, nothing more is queued for the site, page or contact card: a page
\* of the site that is parsed from then on yields no request.
C32_NothingQueuedAfterTheCap ==
    \A j \in JobIds : \A r \in engine[j].inflight :
        (r.callback = "parse" /\ CapReachedFor(j, r.base_url))
        => parse(spider[j], r, TRUE).requests = <<>>


\* C33: within a job the fetches are served by depth: every seed (depth 0)
\* of every site of the job has been sent to the downloader before any page
\* of depth 1 or more of any site is.
C33_SeedsBeforeDeeperPages ==
    \A j \in JobIds :
        (\E r \in engine[j].inflight : r.callback = "parse" /\ r.depth >= 1)
        => \A u \in Range(ctl[j].urls) : Attempted(j, u)


\* C34: every started job reaches a terminal status, given that its fetches
\* all return: it does not stay pending or running for ever.
C34_StartedJobsTerminate ==
    \A j \in JobIds :
        Started(j) ~> (get_job_progress(j).status \in {"completed", "cancelled", "error"})

\* A crawl that fetched its pages has ended and the job is reported
\* completed.
C34_Witness ==
    \E j \in JobIds :
        /\ Started(j)
        /\ engine[j].state = "done"
        /\ \A u \in Range(ctl[j].urls) : Attempted(j, u)
        /\ ctl[j].urls # <<>>
        /\ get_job_progress(j).status = "completed"


\* C35: a read of the progress never observes a torn write: the dict
\* get_scraping_progress returned shows the status, the completed count,
\* the message and the per-URL statuses of one instant, and no later write
\* changes what it shows.
C35_SnapshotIsOfOneInstant ==
    \A j \in JobIds :
        hist[j].snap.held => HeldSnapshot(j) = hist[j].snap.copy


\* C36: however a poller's get_scraped_items interleaves with the job's
\* close_spider, a call made for a job that had a fragment merged does not
\* return an empty list: it returns the live snapshots or the final items.
C36_PollNeverEmptyAfterMerge ==
    \A j \in JobIds :
        (hist[j].reader.returned /\ hist[j].reader.merged)
        => hist[j].reader.result # <<>>


\* The crawl of the job fetched every page of every seed site and ended as
\* a crawl does that nobody stopped.
CrawledToTheEnd(j) ==
    /\ ctl[j].urls # <<>>
    /\ engine[j].state \in {"closed", "done"}
    /\ \A u \in Range(ctl[j].urls) : Count(engine[j].dispatched, u) >= 1 + web.n

\* C37: the cancel signal reaches the crawler under every interleaving: a
\* job cancelled after the starter tested the cancel flag and before the
\* crawler handle was stored has its crawl stopped; it does not fetch all
\* its pages and end as a completed crawl.
C37_CancelReachesTheCrawler ==
    \A j \in JobIds : hist[j].cancel_in_gap => ~CrawledToTheEnd(j)

\* C38: a job whose cancel flag is set when its starter takes the crawl
\* lock gets no crawler and no fetch, and its status stays cancelled in the
\* progress register and in the job record.
C38_CancelledBeforeStartNeverCrawls ==
    \A j \in JobIds :
        hist[j].precancelled =>
            /\ j \notin job_crawlers
            /\ "start" \notin reactor[j]
            /\ engine[j] = NoEngine
            /\ get_scraping_progress(j).status = "cancelled"
            /\ j \in DOMAIN db => db[j].status = "cancelled"

\* The starter of a job of the job manager found the cancel flag set.
C38_Witness ==
    \E j \in JobIds :
        /\ hist[j].precancelled
        /\ ctl[j].mode = "inmemory"
        /\ ctl[j].bg = "done"
        /\ j \in DOMAIN db


\* Nothing of the job is running or about to run: its starter has ended,
\* the reactor holds no call for it and it has no open crawl.
Quiescent(j) ==
    /\ ctl[j].bg = "done"
    /\ reactor[j] = {}
    /\ engine[j].state \in {"none", "done"}

\* C39: for a job started by start_job in memory, what get_job_progress
\* returns agrees with the progress register on the status, the completed
\* count and the per-URL statuses whenever the job is quiescent: after the
\* job completed it does not report 0 completed and every URL pending.
C39_JobRecordAgreesWithRegister ==
    \A j \in JobIds :
        (ctl[j].mode = "inmemory" /\ Quiescent(j))
        => /\ get_job_progress(j).status = get_scraping_progress(j).status
           /\ get_job_progress(j).completed = get_scraping_progress(j).completed
           /\ get_job_progress(j).url_status = get_scraping_progress(j).url_status


\* C40: jobs are isolated: the seed list and the total a job recorded at
\* its start stay what they were for the job's lifetime, whatever is done
\* to another job or to no job in particular (another job is started,
\* reset_progress() is called without a job id).
C40_JobsAreIsolated ==
    \A j \in JobIds :
        (ctl[j].mode \in {"inmemory", "legacy"} /\ ctl[j].urls # <<>>)
        => /\ get_scraping_progress(j).urls = ctl[j].urls
           /\ get_scraping_progress(j).total = Len(ctl[j].urls)


=============================================================================
